---- MODULE Spec2Model ----
(***************************************************************************)
(* A model of the LinkedIn agent's persistence and orchestration core:     *)
(*   - agent/storage.py   : SQLite store (locks, posts, repo queue)        *)
(*   - agent/backlog_generator.py : JSON-file repo queue                   *)
(*   - agent/deduper.py   : TF-IDF duplicate gate and post history file    *)
(*   - agent/llm_generator.py, run.py : generation and the regeneration    *)
(*     loops of LinkedInAgent._generate_and_validate_post                  *)
(* Each subsystem has its own specification (SpecLock, SpecPosts, ...):    *)
(* the variables of the other subsystems stay at their initial value.      *)
(***************************************************************************)
EXTENDS Integers, Sequences, FiniteSets, TLC

VARIABLES
    \* ---- storage.py, table locks, accessed by concurrent processes ----
    locks,      \* set of rows [name, owner] of table locks
    dbWriter,   \* the process inside BEGIN IMMEDIATE .. COMMIT/ROLLBACK, or NoOne
    lpc,        \* lpc[p]: position of process p inside acquire_lock
    larg,       \* larg[p]: the lock name of the call p is executing
    llast,      \* llast[p]: the last call p completed and what it returned
    held,       \* held[p]: names p acquired (returned True) and has not released
    refused,    \* refused[p]: names for which an acquire_lock of p returned False
    \* ---- storage.py, table posts ----
    posts,      \* rows [hash, title, body, timestamp] of table posts, in id order
    utcnow,     \* the clock read by datetime.utcnow()
    plast,      \* the last save_used_post call: its post, hash and result
    trueCount,  \* trueCount[h]: how many save_used_post calls with hash h returned True
    firstRow,   \* firstRow[h]: the row the first successful save of hash h stored
    \* ---- storage.py, tables repo_queue and used_repos ----
    repo_queue, \* set of rows [id, repo] of table repo_queue
    used_repos, \* set of repos in table used_repos
    qpc,        \* qpc[p]: position of process p inside get_next_repo
    qrepo,      \* qrepo[p]: the repo p's SELECT returned
    enqCount,   \* enqCount[r]: how many enqueue_repo(r) inserted a row
    servedCount,\* servedCount[r]: how many get_next_repo calls returned r
    fifo,       \* the repos pending in repo_queue, oldest insert first
    dq,         \* the last dequeue call: what it saw and what it returned
    \* ---- backlog_generator.py, agent/repo_queue.json and used_repos.json ----
    pending_repos, \* the list "pending_repos" of repo_queue.json
    used_list,     \* the list in used_repos.json
    \* ---- deduper.py, the post history file used_posts.jsonl ----
    used_posts, \* the lines of the file, in file order: the post's fields, timestamp, hash
    now,        \* the clock read by datetime.now()
    dcheck,     \* the last is_duplicate call: its post, the file it read, its result
    last_read,  \* the last read of recent posts: the store it read and its result
    saved,      \* the posts save_post stored, as stored, in the order of the calls
    restarts,   \* how often the process has restarted (the modules were reloaded)
    \* ---- self_healer.py: retry_with_backoff ----
    retry,      \* the call of retry_with_backoff: its position, counters and waits
    \* ---- agent/__init__.py: ensure_hashtags_in_content ----
    tagged,     \* its arguments and the results of applying it once and again
    \* ---- run.py: LinkedInAgent.__init__ and run() ----
    pub,        \* one agent: its flags, its position in run(), what it published
    \* ---- deduper.py: calculate_similarity in float64 ----
    sim,        \* the last call: its arguments and the values it returned
    \* ---- self_healer.py: RetryQueue, agent/retry_queue.json ----
    rq,         \* the items of the file and how many were ever added
    \* ---- scheduler.py and content_strategy.py called by two processes ----
    cc,         \* per process: its position in the call, what it read, its result
    \* ---- run.py, one run of LinkedInAgent._generate_and_validate_post ----
    pc,         \* position of the run
    post_source,\* content_strategy["source"]
    current_post,       \* run.py's current_post (check_and_save_post's too)
    is_dup,             \* check_and_save_post's is_dup
    attempts,           \* check_and_save_post's attempts
    regeneration_count, \* run.py's regeneration_count
    low_seo_attempts,   \* run.py's low_seo_attempts
    outcome,    \* "running", "accepted" (a post is returned) or "failed" (raised)
    warned,     \* the event final_post_low_seo was recorded
    exhausted,  \* the event post_uniqueness_failure was recorded
    regenError, \* a regeneration inside check_and_save_post raised
    regenCalls, \* how often regenerate_func was called for a duplicate
    seen,       \* every scored candidate the run produced, in order
    historyAtStart, \* used_posts when the run started
    generator,  \* how the LLM service behaves during the run
    gen_attempts, \* generate_post's attempts
    raw_text,   \* generate_post's raw_text after the last attempt: "none" or its kind
    llm_call,   \* generate_post: the last candidate's kind and what was returned
    \* ---- scheduler.py and when_gate.py, agent/state.json ----
    state_json, \* state["next_post_time"]: [set, t, aware]
    wall_clock, \* datetime.now(), in half-hour slots
    cfg,        \* config.yaml, the posting section: [has_increment, time_increment]
    sched,      \* the last scheduler call: what it read, what it returned
    \* ---- content_strategy.py: niche round robin and topic history ----
    niches,     \* config.yaml: the niches list
    niche_index,    \* niche_index.json: "index", -1 without the file
    topic_history,  \* the topic history file: [topic, timestamp] in file order
    today,      \* datetime.now(), in days
    tpc,        \* position of a run: idle, selected, accepted, failed, ...
    strategy,   \* what get_next_content_strategy returned last
    picked,     \* the niches selected so far, in order
    cursor0,    \* niche_index before the first selection
    runs,       \* how many runs were started
    recorded,   \* per topic: when it was last recorded, how many records since
    saves       \* how many save_topic_history calls were made

lockVars == <<locks, dbWriter, lpc, larg, llast, held, refused>>
postVars == <<posts, utcnow, plast, trueCount, firstRow>>
queueVars == <<repo_queue, used_repos, qpc, qrepo, enqCount, servedCount, fifo, dq>>
backlogVars == <<pending_repos, used_list>>
historyVars == <<used_posts, now>>
dedupVars == <<dcheck, last_read, saved, restarts>>
runVars == <<pc, post_source, current_post, is_dup, attempts, regeneration_count,
             low_seo_attempts, outcome, warned, exhausted, regenError,
             regenCalls, seen, historyAtStart, generator, gen_attempts, raw_text, llm_call>>
schedVars == <<state_json, wall_clock, cfg, sched>>
topicVars == <<niches, niche_index, topic_history, today, tpc, strategy, picked,
               cursor0, runs, recorded, saves>>
toolVars == <<retry, tagged, pub, sim, rq, cc>>
vars == <<lockVars, postVars, queueVars, backlogVars, historyVars, dedupVars,
         runVars, schedVars, topicVars, toolVars>>

Procs == {"A", "B"}
NoOne == "none"
LockNames == {"x", "y"}

(***************************************************************************)
(* storage.py: locks                                                       *)
(***************************************************************************)

\* A row of table locks. acquired_at is written and never read: left out.
LockRow(name, owner) == [name |-> name, owner |-> owner]

\* Mutant: no uniqueness constraint on locks.name.
LockInsertViolates_NoConstraint(tbl, name) == FALSE

\* _SCHEMA: "locks (name TEXT PRIMARY KEY, ...)": an INSERT of a name that is
\* already there raises sqlite3.IntegrityError.
LockInsertViolates(tbl, name) == \E r \in tbl : r.name = name

\* Mutant: DELETE FROM locks WHERE name = ? (the owner is not compared).
DeleteLock_ByNameOnly(tbl, name, owner) == {r \in tbl : r.name # name}

\* release_lock: DELETE FROM locks WHERE name = ? AND owner = ?
DeleteLock(tbl, name, owner) == {r \in tbl : ~(r.name = name /\ r.owner = owner)}

NoCall == [op |-> "none", name |-> "none", res |-> "none", free |-> FALSE]

LockInit ==
    /\ locks = {}
    /\ dbWriter = NoOne
    /\ lpc = [p \in Procs |-> "idle"]
    /\ larg = [p \in Procs |-> "none"]
    /\ llast = [p \in Procs |-> NoCall]
    /\ held = [p \in Procs |-> {}]
    /\ refused = [p \in Procs |-> {}]

OutsideLocks ==
    UNCHANGED <<postVars, queueVars, backlogVars, historyVars, dedupVars, runVars,
                schedVars, topicVars,
                toolVars>>

\* acquire_lock(name, owner = p) is called: _connect().
CallAcquire(p, n) ==
    /\ lpc[p] = "idle"
    /\ lpc' = [lpc EXCEPT ![p] = "begin"]
    /\ larg' = [larg EXCEPT ![p] = n]
    /\ UNCHANGED <<locks, dbWriter, llast, held, refused>>
    /\ OutsideLocks

\* conn.execute("BEGIN IMMEDIATE"): takes the database's write lock; while
\* another connection holds it the busy handler (timeout=30) waits.
AcqBegin(p) ==
    /\ lpc[p] = "begin"
    /\ dbWriter = NoOne
    /\ dbWriter' = p
    /\ lpc' = [lpc EXCEPT ![p] = "insert"]
    /\ UNCHANGED <<locks, larg, llast, held, refused>>
    /\ OutsideLocks

\* conn.execute("INSERT INTO locks ..."): IntegrityError when the name is held.
AcqInsert(p) ==
    /\ lpc[p] = "insert"
    /\ IF LockInsertViolates(locks, larg[p])
         THEN /\ lpc' = [lpc EXCEPT ![p] = "rollback"]
              /\ UNCHANGED locks
         ELSE /\ lpc' = [lpc EXCEPT ![p] = "commit"]
              /\ locks' = locks \cup {LockRow(larg[p], p)}
    /\ UNCHANGED <<dbWriter, larg, llast, held, refused>>
    /\ OutsideLocks

\* Whether nobody held name n: recorded with the call's result.
LockFree(n) == \A q \in Procs : n \notin held[q]

\* conn.execute("COMMIT"); return True
AcqCommit(p) ==
    /\ lpc[p] = "commit"
    /\ dbWriter' = NoOne
    /\ lpc' = [lpc EXCEPT ![p] = "idle"]
    /\ llast' = [llast EXCEPT ![p] =
                   [op |-> "acquire", name |-> larg[p], res |-> "True",
                    free |-> LockFree(larg[p])]]
    /\ held' = [held EXCEPT ![p] = @ \cup {larg[p]}]
    /\ UNCHANGED <<locks, larg, refused>>
    /\ OutsideLocks

\* except sqlite3.IntegrityError: conn.execute("ROLLBACK"); return False
AcqRollback(p) ==
    /\ lpc[p] = "rollback"
    /\ dbWriter' = NoOne
    /\ lpc' = [lpc EXCEPT ![p] = "idle"]
    /\ llast' = [llast EXCEPT ![p] =
                   [op |-> "acquire", name |-> larg[p], res |-> "False",
                    free |-> LockFree(larg[p])]]
    /\ refused' = [refused EXCEPT ![p] = @ \cup {larg[p]}]
    /\ UNCHANGED <<locks, larg, held>>
    /\ OutsideLocks

\* release_lock(name, owner = p): one autocommit DELETE (a write: it waits for
\* the write lock like any other).
ReleaseLock(p, n) ==
    /\ lpc[p] = "idle"
    /\ dbWriter = NoOne
    /\ locks' = DeleteLock(locks, n, p)
    /\ held' = [held EXCEPT ![p] = @ \ {n}]
    /\ llast' = [llast EXCEPT ![p] =
                   [op |-> "release", name |-> n,
                    res |-> IF LockRow(n, p) \in locks THEN "deleted" ELSE "noop",
                    free |-> LockFree(n)]]
    /\ UNCHANGED <<dbWriter, lpc, larg, refused>>
    /\ OutsideLocks

LockStep ==
    \E p \in Procs :
        \/ \E n \in LockNames : CallAcquire(p, n)
        \/ AcqBegin(p)
        \/ AcqInsert(p)
        \/ AcqCommit(p)
        \/ AcqRollback(p)
        \/ \E n \in LockNames : ReleaseLock(p, n)

\* C1: a lock name has at most one owner at any time: the table holds at most
\* one row per name, no two processes hold the same name, and an acquire_lock
\* returns True exactly when the name was free and False (never an error)
\* when it was held, so the loser of a race acquires it once the winner has
\* released it.
C1_LockMutualExclusion ==
    /\ \A n \in LockNames : Cardinality({r \in locks : r.name = n}) <= 1
    /\ \A p, q \in Procs : p # q => held[p] \cap held[q] = {}
    /\ \A p \in Procs : \A n \in held[p] : LockRow(n, p) \in locks
    /\ \A p \in Procs :
          llast[p].op = "acquire" =>
              /\ llast[p].res \in {"True", "False"}
              /\ (llast[p].res = "True") <=> llast[p].free

\* C1 witness: a process that lost the race for a name holds it now, after
\* the winner released it.
C1_Witness ==
    \E p, q \in Procs : \E n \in LockNames :
        /\ p # q
        /\ n \in refused[p]
        /\ n \in held[p]
        /\ llast[p] = [op |-> "acquire", name |-> n, res |-> "True", free |-> TRUE]
        /\ llast[q].op = "release" /\ llast[q].name = n /\ llast[q].res = "deleted"

\* C2: release_lock(name, owner) deletes exactly the row (name, owner) when it
\* is there and otherwise leaves table locks unchanged.
C2_ReleaseOnlyOwner ==
    [][\A p \in Procs : \A n \in LockNames :
          ReleaseLock(p, n) =>
              IF LockRow(n, p) \in locks
                THEN locks' = locks \ {LockRow(n, p)}
                ELSE locks' = locks]_vars

\* C2 witness: a release by a non-owner left the holder's row in place.
C2_Witness ==
    \E p, q \in Procs : \E n \in LockNames :
        /\ p # q
        /\ llast[p] = [op |-> "release", name |-> n, res |-> "noop", free |-> FALSE]
        /\ LockRow(n, q) \in locks
        /\ n \in held[q]

(***************************************************************************)
(* storage.py: posts                                                       *)
(***************************************************************************)

MaxClock == 2
Titles == {"t1", "t2"}
Bodies == {"b1", "b2"}
NoHash == ""
\* hashlib.md5(body).hexdigest(): distinct digests for distinct bodies.
Md5(body) ==
    IF body = "b1" THEN "d1" ELSE IF body = "b2" THEN "d2" ELSE <<"md5", body>>
\* What a caller passes as post["hash"]: nothing, its own id, or a digest.
GivenHashes == {NoHash, "h1", "d1"}
Hashes == (GivenHashes \ {NoHash}) \cup {Md5(b) : b \in Bodies}
NoRow == [hash |-> NoHash, title |-> "none", body |-> "none", timestamp |-> 0]

\* h = post.get("hash"); if not h: h = md5(body)
EffectiveHash(post) == IF post.hash = NoHash THEN Md5(post.body) ELSE post.hash

\* Mutant: posts.hash without UNIQUE.
PostInsertViolates_NoConstraint(tbl, h) == FALSE

\* _SCHEMA: "posts (..., hash TEXT UNIQUE, ...)"
PostInsertViolates(tbl, h) == \E i \in 1..Len(tbl) : tbl[i].hash = h

PostsInit ==
    /\ posts = <<>>
    /\ utcnow = 0
    /\ plast = [post |-> NoRow, hash |-> NoHash, res |-> "none", existed |-> FALSE]
    /\ trueCount = [h \in Hashes |-> 0]
    /\ firstRow = [h \in Hashes |-> NoRow]

OutsidePosts ==
    UNCHANGED <<lockVars, queueVars, backlogVars, historyVars, dedupVars, runVars,
                schedVars, topicVars,
                toolVars>>

\* Time passes between two calls.
Tick ==
    /\ utcnow < MaxClock
    /\ utcnow' = utcnow + 1
    /\ UNCHANGED <<posts, plast, trueCount, firstRow>>
    /\ OutsidePosts

\* save_used_post(post): one autocommit INSERT. Concurrent callers interleave
\* whole calls: the call is this one statement.
SaveUsedPost(post) ==
    LET h == EffectiveHash(post)
        row == [hash |-> h, title |-> post.title, body |-> post.body,
                timestamp |-> utcnow]
        dup == PostInsertViolates(posts, h)
    IN  /\ posts' = IF dup THEN posts ELSE Append(posts, row)
        /\ plast' = [post |-> [post EXCEPT !.timestamp = utcnow], hash |-> h,
                     res |-> IF dup THEN "False" ELSE "True",
                     existed |-> \E i \in 1..Len(posts) : posts[i].hash = h]
        /\ trueCount' = IF dup THEN trueCount ELSE [trueCount EXCEPT ![h] = @ + 1]
        /\ firstRow' = IF trueCount[h] = 0 /\ ~dup
                         THEN [firstRow EXCEPT ![h] = row] ELSE firstRow
        /\ UNCHANGED utcnow
        /\ OutsidePosts

PostsStep ==
    \/ Tick
    \/ \E h \in GivenHashes, t \in Titles, b \in Bodies :
          SaveUsedPost([hash |-> h, title |-> t, body |-> b, timestamp |-> 0])

RowsWithHash(h) == {i \in 1..Len(posts) : posts[i].hash = h}

\* C3: table posts holds at most one row per content hash: the first
\* save_used_post with a hash stores the post and returns True, every later
\* one returns False (no error) and the stored row stays as first stored.
C3_SaveIfAbsent ==
    /\ \A h \in Hashes :
          /\ Cardinality(RowsWithHash(h)) <= 1
          /\ trueCount[h] = Cardinality(RowsWithHash(h))
          /\ \A i \in RowsWithHash(h) : posts[i] = firstRow[h]
    /\ plast.res # "none" =>
          /\ plast.res \in {"True", "False"}
          /\ (plast.res = "False") <=> plast.existed

\* C3 witness: a second save with a stored hash, carrying another title, was
\* answered False and the first row is still the stored one.
C3_Witness ==
    /\ plast.res = "False"
    /\ \E i \in 1..Len(posts) :
          /\ posts[i].hash = plast.hash
          /\ posts[i].title # plast.post.title
          /\ posts[i] = firstRow[plast.hash]

(***************************************************************************)
(* storage.py: repo_queue and used_repos                                   *)
(***************************************************************************)

Repos == {"repoA", "repoB", "repoC"}
None == "None"
MaxEnqueues == 2

QueueRow(id, repo) == [id |-> id, repo |-> repo]

\* INTEGER PRIMARY KEY: a new row gets the largest id in the table plus one.
NextId(tbl) ==
    IF tbl = {} THEN 1
    ELSE (CHOOSE m \in {r.id : r \in tbl} : \A r \in tbl : r.id <= m) + 1

\* INSERT OR IGNORE INTO repo_queue(repo, ...): repo is UNIQUE.
InsertOrIgnoreRepo(tbl, repo) ==
    IF \E r \in tbl : r.repo = repo THEN tbl
    ELSE tbl \cup {QueueRow(NextId(tbl), repo)}

\* Mutant: ORDER BY id DESC.
SelectFirstRepo_Newest(tbl) ==
    IF tbl = {} THEN None
    ELSE (CHOOSE r \in tbl : \A o \in tbl : o.id <= r.id).repo

\* SELECT repo FROM repo_queue ORDER BY id LIMIT 1; fetchone()
SelectFirstRepo(tbl) ==
    IF tbl = {} THEN None
    ELSE (CHOOSE r \in tbl : \A o \in tbl : r.id <= o.id).repo

\* DELETE FROM repo_queue WHERE repo = ?
DeleteRepo(tbl, repo) == {r \in tbl : r.repo # repo}

\* INSERT OR IGNORE INTO used_repos(repo, ...)
MarkUsed(used, repo) == used \cup {repo}

RECURSIVE RemoveFirst(_, _)
\* s without the first occurrence of x.
RemoveFirst(s, x) ==
    IF s = <<>> THEN <<>>
    ELSE IF Head(s) = x THEN Tail(s)
    ELSE <<Head(s)>> \o RemoveFirst(Tail(s), x)

NoDequeue ==
    [impl |-> "none", ret |-> None, served |-> None, skip |-> FALSE,
     before |-> <<>>, after |-> <<>>, used |-> FALSE]

QueueInit ==
    /\ repo_queue = {}
    /\ used_repos = {}
    /\ qpc = [p \in Procs |-> "idle"]
    /\ qrepo = [p \in Procs |-> None]
    /\ enqCount = [r \in Repos |-> 0]
    /\ servedCount = [r \in Repos |-> 0]
    /\ fifo = <<>>
    /\ dq = NoDequeue

OutsideQueue ==
    UNCHANGED <<lockVars, postVars, backlogVars, historyVars, dedupVars, runVars,
                schedVars, topicVars,
                toolVars>>

\* enqueue_repo(repo): one autocommit INSERT OR IGNORE.
EnqueueRepo(p, r) ==
    /\ qpc[p] = "idle"
    /\ enqCount[r] < MaxEnqueues
    /\ repo_queue' = InsertOrIgnoreRepo(repo_queue, r)
    /\ enqCount' = IF repo_queue' # repo_queue
                     THEN [enqCount EXCEPT ![r] = @ + 1] ELSE enqCount
    /\ fifo' = IF repo_queue' # repo_queue THEN Append(fifo, r) ELSE fifo
    /\ UNCHANGED <<used_repos, qpc, qrepo, servedCount, dq>>
    /\ OutsideQueue

\* get_next_repo, first statement (autocommit): the SELECT; "if not row:
\* return None". qrepo[p] is the call's local "repo", returned at the end.
GnrSelect(p) ==
    /\ qpc[p] = "idle"
    /\ LET repo == SelectFirstRepo(repo_queue)
       IN IF repo = None
            THEN /\ qrepo' = [qrepo EXCEPT ![p] = None]
                 /\ UNCHANGED qpc
            ELSE /\ qpc' = [qpc EXCEPT ![p] = "delete"]
                 /\ qrepo' = [qrepo EXCEPT ![p] = repo]
    /\ UNCHANGED <<repo_queue, used_repos, enqCount, servedCount, fifo, dq>>
    /\ OutsideQueue

\* get_next_repo, second statement (autocommit): the DELETE.
GnrDelete(p) ==
    /\ qpc[p] = "delete"
    /\ repo_queue' = DeleteRepo(repo_queue, qrepo[p])
    /\ fifo' = RemoveFirst(fifo, qrepo[p])
    /\ qpc' = [qpc EXCEPT ![p] = "mark"]
    /\ UNCHANGED <<used_repos, qrepo, enqCount, servedCount, dq>>
    /\ OutsideQueue

\* get_next_repo, third statement (autocommit): mark used; return repo.
GnrMark(p) ==
    /\ qpc[p] = "mark"
    /\ used_repos' = MarkUsed(used_repos, qrepo[p])
    /\ servedCount' = [servedCount EXCEPT ![qrepo[p]] = @ + 1]
    /\ qpc' = [qpc EXCEPT ![p] = "idle"]
    /\ UNCHANGED <<repo_queue, qrepo, enqCount, fifo, dq>>
    /\ OutsideQueue

\* Two processes share the database file: their statements interleave.
QueueStep ==
    \E p \in Procs :
        \/ \E r \in Repos : EnqueueRepo(p, r)
        \/ GnrSelect(p)
        \/ GnrDelete(p)
        \/ GnrMark(p)

\* C4: get_next_repo is atomic per call: no queued item is returned to two
\* callers (an item is served at most as often as it was enqueued), and in
\* every reachable state an item that has left the queue is in the used set.
C4_DequeueAtomic ==
    /\ \A r \in Repos : servedCount[r] <= enqCount[r]
    /\ \A r \in Repos :
          (enqCount[r] > 0 /\ ~(\E row \in repo_queue : row.repo = r))
              => r \in used_repos

(***************************************************************************)
(* The same calls made one at a time (no overlap), and the JSON-file queue *)
(* of backlog_generator.py.                                                *)
(***************************************************************************)

\* The lists repo_queue.json may hold when the agent starts.
InitialPending ==
    {<<>>, <<"repoA">>, <<"repoA", "repoB">>, <<"repoB", "repoA">>,
     <<"repoA", "repoB", "repoC">>, <<"repoC", "repoA", "repoB">>}

BacklogInit ==
    /\ pending_repos \in InitialPending
    /\ used_list = <<>>

OutsideBacklog ==
    UNCHANGED <<lockVars, postVars, historyVars, dedupVars, runVars, schedVars,
                topicVars,
                toolVars>>

\* enqueue_repo(repo), whole call.
SeqEnqueueRepo(r) == EnqueueRepo("A", r)

\* get_next_repo(), whole call: SELECT, DELETE, INSERT OR IGNORE, return.
SeqGetNextRepo ==
    LET repo == SelectFirstRepo(repo_queue)
    IN  /\ \A p \in Procs : qpc[p] = "idle"
        /\ IF repo = None
             THEN /\ dq' = [impl |-> "storage", ret |-> None, served |-> None,
                            skip |-> FALSE, before |-> fifo, after |-> fifo,
                            used |-> FALSE]
                  /\ UNCHANGED <<repo_queue, used_repos, servedCount, fifo>>
             ELSE /\ repo_queue' = DeleteRepo(repo_queue, repo)
                  /\ used_repos' = MarkUsed(used_repos, repo)
                  /\ servedCount' = [servedCount EXCEPT ![repo] = @ + 1]
                  /\ fifo' = RemoveFirst(fifo, repo)
                  /\ dq' = [impl |-> "storage", ret |-> repo, served |-> repo,
                            skip |-> FALSE, before |-> fifo, after |-> fifo',
                            used |-> repo \in used_repos']
        /\ UNCHANGED <<qpc, qrepo, enqCount>>
        /\ OutsideQueue

\* s without its k-th element: list.pop(k - 1).
PopAt(s, k) == SubSeq(s, 1, k - 1) \o SubSeq(s, k + 1, Len(s))

\* "if skip_current and len(repos) > 1: repos.pop(1) else: repos.pop(0)"
\* (1-based position of the popped element).
PopIndex(repos, skip_current) ==
    IF skip_current /\ Len(repos) > 1 THEN 2 ELSE 1

\* get_next_repo_post(skip_current), whole call: pop, rewrite repo_queue.json,
\* append to used_repos.json, generate_repo_post(repo). generated: whether
\* generate_repo_post returned a post (it returns None when the repository's
\* details cannot be fetched). The returned post is named by its repo.
GetNextRepoPost(skip_current, generated) ==
    /\ IF pending_repos = <<>>
         THEN /\ dq' = [impl |-> "backlog", ret |-> None, served |-> None,
                        skip |-> skip_current, before |-> pending_repos,
                        after |-> pending_repos, used |-> FALSE]
              /\ UNCHANGED <<pending_repos, used_list>>
         ELSE LET k == PopIndex(pending_repos, skip_current)
                  repo == pending_repos[k]
              IN  /\ pending_repos' = PopAt(pending_repos, k)
                  /\ used_list' = Append(used_list, repo)
                  /\ dq' = [impl |-> "backlog",
                            ret |-> IF generated THEN repo ELSE None,
                            served |-> repo, skip |-> skip_current,
                            before |-> pending_repos, after |-> pending_repos',
                            used |-> \E i \in 1..Len(used_list') : used_list'[i] = repo]
    /\ UNCHANGED <<repo_queue, used_repos, qpc, qrepo, enqCount, servedCount, fifo>>
    /\ OutsideBacklog

SeqQueueStep ==
    \/ \E r \in Repos : SeqEnqueueRepo(r)
    \/ SeqGetNextRepo
    \/ \E skip_current \in BOOLEAN, generated \in BOOLEAN :
          GetNextRepoPost(skip_current, generated)

RECURSIVE ByIdOrder(_)
\* The repos of table repo_queue in ORDER BY id.
ByIdOrder(tbl) ==
    IF tbl = {} THEN <<>>
    ELSE LET first == CHOOSE r \in tbl : \A o \in tbl : r.id <= o.id
         IN <<first.repo>> \o ByIdOrder(tbl \ {first})

\* C5 as claimed: every dequeue (storage.get_next_repo and
\* backlog_generator.get_next_repo_post) serves the oldest pending item,
\* returns None on an empty queue, removes exactly that item, adds it to the
\* used set and leaves the other items in their order.
C5_FifoAlwaysFront ==
    /\ ByIdOrder(repo_queue) = fifo
    /\ dq.impl # "none" =>
          IF dq.before = <<>>
            THEN dq.ret = None /\ dq.after = dq.before
            ELSE /\ dq.served = Head(dq.before)
                 /\ dq.after = Tail(dq.before)
                 /\ dq.used

\* C5 as amended: called one at a time, get_next_repo and
\* get_next_repo_post(skip_current=False) serve the oldest pending item;
\* get_next_repo_post(skip_current=True) with two or more pending items serves
\* the second-oldest. The call removes exactly the served item, marks it used
\* and keeps the order of the others; it returns None on an empty queue, and
\* get_next_repo_post returns the served item's post or, when its generation
\* fails, None.
C5_Fifo ==
    /\ ByIdOrder(repo_queue) = fifo
    /\ dq.impl # "none" =>
          IF dq.before = <<>>
            THEN dq.ret = None /\ dq.after = dq.before
            ELSE LET k == IF dq.impl = "backlog" /\ dq.skip /\ Len(dq.before) > 1
                            THEN 2 ELSE 1
                 IN  /\ dq.served = dq.before[k]
                     /\ dq.after = SubSeq(dq.before, 1, k - 1)
                                     \o SubSeq(dq.before, k + 1, Len(dq.before))
                     /\ dq.used
                     /\ IF dq.impl = "storage" THEN dq.ret = dq.served
                        ELSE dq.ret \in {dq.served, None}

\* C5 witness: a skipping dequeue of a three-item list served the second item
\* and left the first and the third in order.
C5_Witness ==
    /\ dq.impl = "backlog" /\ dq.skip
    /\ Len(dq.before) = 3
    /\ dq.served = dq.before[2]
    /\ dq.after = <<dq.before[1], dq.before[3]>>

\* C6: no item is ever served twice: once get_next_repo has returned an item,
\* no later get_next_repo returns it again, whatever is enqueued in between.
C6_NoItemServedTwice == \A r \in Repos : servedCount[r] <= 1

(***************************************************************************)
(* deduper.py: the history file and the TF-IDF duplicate gate              *)
(***************************************************************************)

MAX_HISTORY_SIZE == 30
MAX_REGENERATION_ATTEMPTS == 3

\* A post body is its text as a sequence of lower-case words of two or more
\* letters (what TfidfVectorizer's token pattern keeps).
StopWords == {"the", "and"}
B1 == <<"ai", "ai", "ai", "the", "drug">>
B2 == <<"ai", "ai", "ai", "graph">>
B3 == <<"graph", "graph", "and", "drug">>
RunBodies == {B1, B2, B3}
Scores == {60, 70, 85}

\* TfidfVectorizer(stop_words="english"): the terms of a text.
Tokens(text) == SelectSeq(text, LAMBDA w : w \notin StopWords)

\* Term frequency of w in a list of terms.
Tf(terms, w) == Cardinality({i \in 1..Len(terms) : terms[i] = w})

\* docs: the texts of the corpus as lists of terms. Document frequency of w.
Df(docs, w) == Cardinality({d \in 1..Len(docs) : Tf(docs[d], w) > 0})

Vocabulary(docs) == UNION {{docs[d][i] : i \in 1..Len(docs[d])} : d \in 1..Len(docs)}

\* idf(w) = ln((1 + n) / (1 + df)) + 1 (smooth_idf), in tenths, rounded:
\* IdfTenths[n][df] for a corpus of n documents.
IdfTenths ==
    << <<10>>,
       <<14, 10>>,
       <<17, 13, 10>>,
       <<19, 15, 12, 10>>,
       <<21, 17, 14, 12, 10>>,
       <<23, 18, 16, 13, 12, 10>>,
       <<24, 20, 17, 15, 13, 11, 10>>,
       <<25, 21, 18, 16, 14, 13, 11, 10>>,
       <<26, 22, 19, 17, 15, 14, 12, 11, 10>>,
       <<27, 23, 20, 18, 16, 15, 13, 12, 11, 10>> >>

\* The tf-idf weight of w in document d, before L2 normalisation.
TfIdf(docs, d, w) ==
    IF Tf(docs[d], w) = 0 THEN 0
    ELSE Tf(docs[d], w) * IdfTenths[Len(docs)][Df(docs, w)]

RECURSIVE SumOver(_, _)
\* The sum of f[w] over the w of S.
SumOver(f, S) ==
    IF S = {} THEN 0
    ELSE LET w == CHOOSE x \in S : TRUE
         IN f[w] + SumOver(f, S \ {w})

\* The element of a one-element set.
Only(S) == CHOOSE x \in S : TRUE

\* fit_transform(all_texts): the tf-idf vector of every document.
TfidfMatrix(docs) ==
    Only({[d \in 1..Len(docs) |-> [w \in V |-> TfIdf(docs, d, w)]] :
          V \in {Vocabulary(docs)}})

\* The dot product of two vectors over the same vocabulary.
Dot(x, y) ==
    Only({SumOver(products, DOMAIN products) :
          products \in {[w \in DOMAIN x |-> x[w] * y[w]]}})

\* SIMILARITY_THRESHOLD = 0.8 as the fraction 4/5.
ThresholdNum == 4
ThresholdDen == 5

\* cosine > 0.8 for vectors with dot product dot and squared norms na, nb:
\* dot / sqrt(na * nb) > 4/5, squared (all the weights are >= 0). A zero
\* vector has cosine 0 with everything.
ExceedsThreshold_OrEqual(dot, na, nb) ==
    ThresholdDen * ThresholdDen * dot * dot >= ThresholdNum * ThresholdNum * na * nb
ExceedsThreshold(dot, na, nb) ==
    ThresholdDen * ThresholdDen * dot * dot > ThresholdNum * ThresholdNum * na * nb

\* sorted(posts, key=timestamp, reverse=True): newest first; entries with
\* equal timestamps keep their file order (the sort is stable).
SortedByTimestampDesc(s) ==
    LET Before(i, j) == \/ s[i].timestamp > s[j].timestamp
                        \/ (s[i].timestamp = s[j].timestamp /\ i < j)
        Rank(i) == 1 + Cardinality({j \in 1..Len(s) : Before(j, i)})
    IN [k \in 1..Len(s) |-> s[CHOOSE i \in 1..Len(s) : Rank(i) = k]]

\* Mutant: the lines in file order, oldest first.
LoadRecentPosts_FileOrder(file) ==
    SubSeq(file, 1, IF Len(file) < MAX_HISTORY_SIZE THEN Len(file)
                    ELSE MAX_HISTORY_SIZE)

\* load_recent_posts(): the lines of the file, newest first, at most
\* MAX_HISTORY_SIZE of them.
LoadRecentPosts(file) ==
    LET sorted == SortedByTimestampDesc(file)
    IN SubSeq(sorted, 1, IF Len(sorted) < MAX_HISTORY_SIZE THEN Len(sorted)
                         ELSE MAX_HISTORY_SIZE)

RECURSIVE FracLess(_, _, _, _)
\* a/b < c/d for a, c >= 0 and b, d > 0, without forming a product.
FracLess(a, b, c, d) ==
    IF a \div b # c \div d THEN a \div b < c \div d
    ELSE IF c % d = 0 THEN FALSE
    ELSE IF a % b = 0 THEN TRUE
    ELSE FracLess(d, c % d, b, a % b)

\* The cosine of documents d and c of the corpus, kept as its parts: dot
\* product and squared norms. cosine_similarity gives 0 for a zero vector.
Cosine(x, y) == [dot |-> Dot(x, y), na |-> Dot(x, x), nb |-> Dot(y, y)]

\* x < y for two cosines (all weights are >= 0, so squares compare alike).
CosineLess(x, y) ==
    IF y.dot = 0 \/ y.na * y.nb = 0 THEN FALSE
    ELSE IF x.dot = 0 \/ x.na * x.nb = 0 THEN TRUE
    ELSE FracLess(x.dot * x.dot, x.na * x.nb, y.dot * y.dot, y.na * y.nb)

NoEntry == [body |-> <<>>, seo_score |-> -1, timestamp |-> 0]
ZeroCosine == [dot |-> 0, na |-> 1, nb |-> 1]

\* all_texts = recent_texts + [candidate_text], as lists of terms.
Corpus(candidate_text, recent) ==
    [d \in 1..(Len(recent) + 1) |->
        IF d <= Len(recent) THEN Tokens(recent[d].body)
        ELSE Tokens(candidate_text)]

\* cosine_similarity(tfidf_matrix[-1:], tfidf_matrix[:-1]): the candidate (the
\* last document) against each recent post.
Similarities(docs) ==
    Only({[d \in 1..(Len(docs) - 1) |->
              Cosine(tfidf_matrix[d], tfidf_matrix[Len(docs)])] :
          tfidf_matrix \in {TfidfMatrix(docs)}})

\* Mutant: the last index of the largest cosine.
ArgMax_Last(similarities) ==
    CHOOSE i \in 1..Len(similarities) :
        /\ \A j \in 1..Len(similarities) :
              ~CosineLess(similarities[i], similarities[j])
        /\ \A j \in (i + 1)..Len(similarities) :
              CosineLess(similarities[j], similarities[i])

\* np.argmax(similarities): the first index of the largest cosine.
ArgMax(similarities) ==
    CHOOSE i \in 1..Len(similarities) :
        /\ \A j \in 1..Len(similarities) :
              ~CosineLess(similarities[i], similarities[j])
        /\ \A j \in 1..(i - 1) : CosineLess(similarities[j], similarities[i])

\* max_similarity and "recent_posts[max_index] if max_similarity > 0 else None".
MaxAndPost(similarities, recent, max_index) ==
    [max_similarity |-> similarities[max_index],
     most_similar_post |->
         IF similarities[max_index].dot > 0 THEN recent[max_index] ELSE NoEntry]

\* np.max / np.argmax over the cosines of the candidate (the last document)
\* with each recent post.
MostSimilar_Last(docs, recent) ==
    Only({[max_similarity |-> Cosine(tfidf_matrix[Len(recent)],
                                     tfidf_matrix[Len(recent) + 1]),
           most_similar_post |-> recent[Len(recent)]] :
          tfidf_matrix \in {TfidfMatrix(docs)}})
MostSimilar(docs, recent) ==
    Only({Only({MaxAndPost(similarities, recent, max_index) :
                max_index \in {ArgMax(similarities)}}) :
          similarities \in {Similarities(docs)}})

\* vectorizer.fit_transform(all_texts) raises ValueError ("empty vocabulary")
\* when no document has a term.
FitTransformRaises(docs) == Vocabulary(docs) = {}

\* Mutant: the handler is for KeyError only.
Caught_KeyErrorOnly(exception) == exception = "KeyError"
\* "except Exception as e": the handler around the computation (deduper.py:115).
Caught(exception) == TRUE

\* An exception leaves calculate_similarity.
CalculateSimilarityRaises(candidate_text, recent) ==
    /\ recent # <<>>
    /\ FitTransformRaises(Corpus(candidate_text, recent))
    /\ ~Caught("ValueError")

\* calculate_similarity(candidate_text, recent_posts) -> (max_similarity,
\* most_similar_post). No recent posts, or an empty vocabulary (fit_transform
\* raises ValueError, which is caught), give (0.0, None).
CalculateSimilarity(candidate_text, recent) ==
    Only({IF recent = <<>> \/ FitTransformRaises(docs)
            THEN [max_similarity |-> ZeroCosine, most_similar_post |-> NoEntry]
            ELSE MostSimilar(docs, recent) :
          docs \in {Corpus(candidate_text, recent)}})

\* "if similarity > SIMILARITY_THRESHOLD: return True, similar_post" else
\* "return False, None".
DuplicateVerdict(similarity, similar_post) ==
    IF ExceedsThreshold(similarity.dot, similarity.na, similarity.nb)
      THEN [is_dup |-> TRUE, similar_post |-> similar_post]
      ELSE [is_dup |-> FALSE, similar_post |-> NoEntry]

\* is_duplicate(post) -> (is_dup, similar_post), the history file being file.
IsDuplicateResult(post, file) ==
    Only({DuplicateVerdict(cs.max_similarity, cs.most_similar_post) :
          cs \in {CalculateSimilarity(post.body, recent) :
                   recent \in {LoadRecentPosts(file)}}})

\* The first component of is_duplicate(post).
IsDuplicate(post, file) == IsDuplicateResult(post, file).is_dup

\* save_post(post): append the post with its timestamp to the file. The trim
\* that follows rewrites the file only when load_recent_posts() returns more
\* than MAX_HISTORY_SIZE posts, which it never does.
\* The line written is the post's own fields with "timestamp" and "hash" set.
SavePost(file, post, clock) ==
    Append(file, [k \in DOMAIN post \cup {"timestamp", "hash"} |->
                    IF k = "timestamp" THEN clock
                    ELSE IF k = "hash" THEN Md5(post.body)
                    ELSE post[k]])

NoRead == [op |-> "none", limit |-> 0, store |-> <<>>, result |-> <<>>, at |-> 0,
           run |-> 0]
NoCheck == [called |-> FALSE, body |-> <<>>, file |-> <<>>, raised |-> FALSE,
            result |-> [is_dup |-> FALSE, similar_post |-> NoEntry]]
DedupIdle == dcheck = NoCheck /\ last_read = NoRead /\ saved = <<>> /\ restarts = 0

\* Bodies for the duplicate gate: B1 and B1x have the same terms; B4 and B5
\* have cosine exactly 4/5 when every document holds both their terms; B6 has
\* no term at all; B7 shares no term with the others; B0 is the empty text.
B1x == <<"ai", "ai", "ai", "drug">>
B4 == <<"ai", "drug", "drug">>
B5 == <<"and", "ai", "ai", "drug">>
B6 == <<"the", "and">>
B7 == <<"nlp", "nlp">>
B0 == <<>>
DedupBodies == {B0, B1, B1x, B4, B5, B6, B7}
MaxHistory == 2

OutsideDedup ==
    UNCHANGED <<lockVars, postVars, queueVars, backlogVars, runVars, schedVars,
                topicVars,
                toolVars>>

\* save_post(post) at the current clock reading; the clock has moved on by the
\* next call.
DedupSavePost(body) ==
    /\ Len(used_posts) < MaxHistory
    /\ used_posts' = SavePost(used_posts, [body |-> body, seo_score |-> 70], now)
    /\ now' = now + 1
    /\ UNCHANGED <<dcheck, last_read, saved, restarts>>
    /\ OutsideDedup

\* is_duplicate(post): reads the file, writes nothing. An exception of
\* calculate_similarity would pass through it: there is no result then.
IsDuplicateCall(body) ==
    /\ dcheck' =
          IF CalculateSimilarityRaises(body, LoadRecentPosts(used_posts))
            THEN [NoCheck EXCEPT !.called = TRUE, !.body = body, !.file = used_posts,
                                 !.raised = TRUE]
            ELSE [called |-> TRUE, body |-> body, file |-> used_posts,
                  raised |-> FALSE,
                  result |-> IsDuplicateResult([body |-> body, seo_score |-> 70],
                                              used_posts)]
    /\ UNCHANGED historyVars
    /\ UNCHANGED <<last_read, saved, restarts>>
    /\ OutsideDedup

DedupStep ==
    \/ \E body \in DedupBodies : DedupSavePost(body)
    \/ \E body \in DedupBodies : IsDuplicateCall(body)

(***************************************************************************)
(* Reading the recent posts back: deduper.load_recent_posts() over the     *)
(* history file and storage.get_recent_posts(limit) over table posts.      *)
(* Both stores are files: a restart of the process leaves them as they are.*)
(***************************************************************************)
MaxRecentSaves == 2
MaxRestarts == 1
Limits == {1, MAX_HISTORY_SIZE}
RecentPosts == {[title |-> "t1", body |-> B1, seo_score |-> 70],
                [title |-> "t2", body |-> B7, seo_score |-> 85]}

Min(a, b) == IF a < b THEN a ELSE b

\* ORDER BY timestamp DESC: the orders of the rows that put no row before a
\* newer one. SQL leaves the order of rows with equal timestamps open.
TimestampOrders(tbl) ==
    {p \in [1..Len(tbl) -> 1..Len(tbl)] :
        /\ \A i, j \in 1..Len(tbl) : i # j => p[i] # p[j]
        /\ \A i, j \in 1..Len(tbl) :
              i < j => tbl[p[i]].timestamp >= tbl[p[j]].timestamp}

\* get_recent_posts(limit): the lists it can return.
GetRecentPosts(tbl, limit) ==
    {[k \in 1..Min(limit, Len(tbl)) |-> tbl[p[k]]] : p \in TimestampOrders(tbl)}

\* What save_post(post) stores when it reads the clock at t in process run r.
Stored(post, t, r) ==
    [title |-> post.title, body |-> post.body, hash |-> Md5(post.body),
     timestamp |-> t, run |-> r]

\* A used_posts.jsonl that n earlier save_post calls have written.
OldPost == [title |-> "t0", body |-> B3, seo_score |-> 70]
WrittenFile(n) == [i \in 1..n |-> SavePost(<<>>, OldPost, i)[1]]

\* save_post(post) at the current clock reading; the clock has moved on by the
\* next call. saved notes what the call stored and in which process run.
SavePostCall(post) ==
    /\ Len(used_posts) < Len(historyAtStart) + MaxRecentSaves
    /\ used_posts' = SavePost(used_posts, post, now)
    /\ now' = now + 1
    /\ saved' = Append(saved, Stored(post, now, restarts))
    /\ UNCHANGED <<dcheck, last_read, restarts>>
    /\ OutsideDedup

\* load_recent_posts(): reads the file, writes nothing.
LoadRecentPostsCall ==
    /\ last_read' = [op |-> "load_recent_posts", limit |-> MAX_HISTORY_SIZE,
                     store |-> used_posts, result |-> LoadRecentPosts(used_posts),
                     at |-> now, run |-> restarts]
    /\ UNCHANGED <<dcheck, saved, restarts>>
    /\ UNCHANGED historyVars
    /\ OutsideDedup

\* get_recent_posts(limit): one SELECT.
GetRecentPostsCall(limit) ==
    /\ \E result \in GetRecentPosts(posts, limit) :
          last_read' = [op |-> "get_recent_posts", limit |-> limit, store |-> posts,
                        result |-> result, at |-> utcnow, run |-> restarts]
    /\ UNCHANGED <<dcheck, saved, restarts>>
    /\ UNCHANGED historyVars
    /\ OutsideDedup

\* Mutant: the posts live in the process and are gone with it.
Restart_LosesPosts ==
    /\ restarts < MaxRestarts
    /\ restarts' = restarts + 1
    /\ used_posts' = <<>>
    /\ UNCHANGED <<dcheck, last_read, saved, now>>
    /\ OutsideDedup

\* The process ends and a new one starts (or the modules are reloaded): the
\* modules keep no posts in memory, the file and the database stay.
Restart ==
    /\ restarts < MaxRestarts
    /\ restarts' = restarts + 1
    /\ UNCHANGED <<dcheck, last_read, saved>>
    /\ UNCHANGED historyVars
    /\ OutsideDedup

\* Calls on the history file, and calls on table posts.
RecentFileStep ==
    \/ \E post \in RecentPosts : SavePostCall(post)
    \/ LoadRecentPostsCall
    \/ Restart

RecentTableStep ==
    \/ \E limit \in Limits : GetRecentPostsCall(limit)
    \/ Tick
    \/ \E b \in Bodies :
          SaveUsedPost([hash |-> NoHash, title |-> "t1", body |-> b, timestamp |-> 0])

\* The file and the table share nothing, so a behaviour need not interleave
\* the calls on them: it works on the file or on the table.
RecentStep ==
    \/ posts = <<>> /\ utcnow = 0 /\ last_read.op # "get_recent_posts" /\ RecentFileStep
    \/ used_posts = historyAtStart /\ restarts = 0
          /\ last_read.op # "load_recent_posts" /\ RecentTableStep

\* deduper.py:68-73, the end of save_post: "recent_posts = load_recent_posts();
\* if len(recent_posts) > MAX_HISTORY_SIZE:" the file is rewritten with
\* recent_posts[:MAX_HISTORY_SIZE], else it stays as it is.
TrimmedFile(file) ==
    LET recent_posts == LoadRecentPosts(file)
    IN  IF Len(recent_posts) > MAX_HISTORY_SIZE
          THEN SubSeq(recent_posts, 1, MAX_HISTORY_SIZE)
          ELSE file

\* C36: after any sequence of save_post calls the used-posts file holds at
\* most MAX_HISTORY_SIZE (30) entries, the most recent ones.
C36_HistoryFileBounded ==
    /\ Len(used_posts) <= MAX_HISTORY_SIZE
    /\ \A i \in 1..Len(saved) :
          i > Len(saved) - MAX_HISTORY_SIZE =>
             \E k \in 1..Len(used_posts) :
                /\ used_posts[k].body = saved[i].body
                /\ used_posts[k].timestamp = saved[i].timestamp

\* The trim of save_post never rewrites the file, whatever its length: every
\* line ever saved is still in the file, in the order of the calls.
TrimNeverRewrites ==
    /\ TrimmedFile(used_posts) = used_posts
    /\ Len(used_posts) = Len(saved)
    /\ \A i \in 1..Len(saved) :
          /\ used_posts[i].body = saved[i].body
          /\ used_posts[i].timestamp = saved[i].timestamp

\* The file has grown past the bound.
FileBeyondBound ==
    /\ Len(used_posts) = MAX_HISTORY_SIZE + 1
    /\ Len(LoadRecentPosts(used_posts)) = MAX_HISTORY_SIZE

(***************************************************************************)
(* scheduler.py and when_gate.py: the posting schedule in agent/state.json *)
(*                                                                         *)
(* Times are counted in half-hour slots from midnight of day 0.  Both      *)
(* modules read and write the same file: scheduler.py with naive local     *)
(* datetimes, when_gate.py with datetimes aware of the configured zone.    *)
(* run.py calls scheduler.py; when_gate.py runs as a script.               *)
(***************************************************************************)
SlotsPerDay == 48
\* posting.start_time "09:00"
StartSlot == 18
\* when_gate.py: new_next_time.hour >= 14
CutoffSlot == 28
\* when_gate.py: time_window_end defaults to 120 minutes
WindowSlots == 4
\* scheduler.py: time_increment defaults to 30 minutes
DefaultIncrement == 1
\* The last slot looked at: 22:00 of the day after day 0.
MaxSlot == 92
\* posting.time_increment of 30 or 90 minutes
Increments == {1, 3}
\* When the first call is made: at midnight, at the start time, at the cutoff.
InitialClocks == {0, StartSlot, CutoffSlot}
\* How long after the previous call a call is made.
Elapsed == {0, 1, 5, SlotsPerDay}

Configs ==
    {[has_increment |-> FALSE, time_increment |-> DefaultIncrement]}
    \cup {[has_increment |-> TRUE, time_increment |-> i] : i \in Increments}

NoNextTime == [set |-> FALSE, t |-> 0, aware |-> FALSE]
NextTime(t, aware) == [set |-> TRUE, t |-> t, aware |-> aware]
NoSchedCall == [op |-> "none", module |-> "none", force |-> FALSE, prev |-> NoNextTime,
           ok |-> TRUE, result |-> FALSE, returned |-> NoNextTime]

DayOf(t) == t \div SlotsPerDay
SlotOfDay(t) == t % SlotsPerDay
\* today's start_time: now.replace(hour=hh, minute=mm, second=0, microsecond=0)
StartTimeOn(day) == day * SlotsPerDay + StartSlot

\* Scheduler.should_post_now(force). Comparing the naive now with an aware
\* next_post_time raises TypeError, which the except turns into False.
SchedulerShouldPostNow(force, state, t) ==
    IF force THEN TRUE
    ELSE IF ~state.set THEN TRUE
    ELSE IF state.aware THEN FALSE
    ELSE t >= state.t

\* int(cfg["posting"].get("time_increment", 30))
SchedulerIncrement(c) == IF c.has_increment THEN c.time_increment ELSE DefaultIncrement

Later(a, b) == IF a < b THEN b ELSE a
\* base: the previous next_post_time, or today's start time; never before now.
SchedulerBase(state, t) ==
    Later(IF state.set THEN state.t ELSE StartTimeOn(DayOf(t)), t)

\* Scheduler.update_next_post_time(): next_time = base + timedelta(minutes=inc).
SchedulerNextTime(state, t, c) == SchedulerBase(state, t) + SchedulerIncrement(c)

\* when_gate.should_post_now(): inside [next_post_time, next_post_time + window];
\* a config without posting.time_increment raises KeyError, turned into False.
WhenGateShouldPostNow(state, t, c) ==
    IF ~c.has_increment THEN FALSE
    ELSE LET next_post_time == IF state.set THEN state.t ELSE StartTimeOn(DayOf(t))
         IN next_post_time <= t /\ t <= next_post_time + WindowSlots

\* when_gate.update_next_post_time(): previous (or today's start) plus the
\* increment; from 14:00 on, tomorrow's start time instead.
WhenGateNextTime(state, t, c) ==
    LET current_next_time == IF state.set THEN state.t ELSE StartTimeOn(DayOf(t))
        new_next_time == current_next_time + c.time_increment
    IN IF SlotOfDay(new_next_time) >= CutoffSlot THEN StartTimeOn(DayOf(t) + 1)
       ELSE new_next_time

OutsideSched ==
    UNCHANGED <<lockVars, postVars, queueVars, backlogVars, historyVars, dedupVars,
                runVars, topicVars,
                toolVars>>

SchedIdleInit ==
    /\ state_json = NoNextTime
    /\ wall_clock = 0
    /\ cfg = [has_increment |-> FALSE, time_increment |-> DefaultIncrement]
    /\ sched = NoSchedCall

\* scheduler.should_post_now(force), d slots after the previous call.
ShouldPostNow(force, d) ==
    /\ wall_clock + d <= MaxSlot
    /\ wall_clock' = wall_clock + d
    /\ sched' = [op |-> "should_post_now", module |-> "scheduler", force |-> force,
                 prev |-> state_json, ok |-> TRUE,
                 result |-> SchedulerShouldPostNow(force, state_json, wall_clock + d),
                 returned |-> NoNextTime]
    /\ UNCHANGED <<state_json, cfg>>
    /\ OutsideSched

\* scheduler.update_next_post_time(), d slots after the previous call. With an
\* aware previous value "base < now" raises TypeError: nothing is saved.
UpdateNextPostTime(d) ==
    /\ wall_clock + d <= MaxSlot
    /\ wall_clock' = wall_clock + d
    /\ IF state_json.set /\ state_json.aware
         THEN /\ sched' = [op |-> "update_next_post_time", module |-> "scheduler",
                           force |-> FALSE, prev |-> state_json, ok |-> FALSE,
                           result |-> FALSE, returned |-> NoNextTime]
              /\ UNCHANGED state_json
         ELSE /\ SchedulerNextTime(state_json, wall_clock + d, cfg) <= MaxSlot
              /\ state_json' = NextTime(SchedulerNextTime(state_json, wall_clock + d, cfg),
                                        FALSE)
              /\ sched' = [op |-> "update_next_post_time", module |-> "scheduler",
                           force |-> FALSE, prev |-> state_json, ok |-> TRUE,
                           result |-> FALSE, returned |-> state_json']
    /\ UNCHANGED cfg
    /\ OutsideSched

\* when_gate.should_post_now(), d slots after the previous call.
WhenGateShouldPost(d) ==
    /\ wall_clock + d <= MaxSlot
    /\ wall_clock' = wall_clock + d
    /\ sched' = [op |-> "should_post_now", module |-> "when_gate", force |-> FALSE,
                 prev |-> state_json, ok |-> TRUE,
                 result |-> WhenGateShouldPostNow(state_json, wall_clock + d, cfg),
                 returned |-> NoNextTime]
    /\ UNCHANGED <<state_json, cfg>>
    /\ OutsideSched

\* when_gate.update_next_post_time(), d slots after the previous call. Without
\* posting.time_increment the KeyError is caught and None is returned.
WhenGateUpdate(d) ==
    /\ wall_clock + d <= MaxSlot
    /\ wall_clock' = wall_clock + d
    /\ IF ~cfg.has_increment
         THEN /\ sched' = [op |-> "update_next_post_time", module |-> "when_gate",
                           force |-> FALSE, prev |-> state_json, ok |-> FALSE,
                           result |-> FALSE, returned |-> NoNextTime]
              /\ UNCHANGED state_json
         ELSE /\ WhenGateNextTime(state_json, wall_clock + d, cfg) <= MaxSlot
              /\ state_json' = NextTime(WhenGateNextTime(state_json, wall_clock + d, cfg),
                                        TRUE)
              /\ sched' = [op |-> "update_next_post_time", module |-> "when_gate",
                           force |-> FALSE, prev |-> state_json, ok |-> TRUE,
                           result |-> FALSE, returned |-> state_json']
    /\ UNCHANGED cfg
    /\ OutsideSched

SchedulerStep ==
    \/ \E force \in BOOLEAN, d \in Elapsed : ShouldPostNow(force, d)
    \/ \E d \in Elapsed : UpdateNextPostTime(d)

WhenGateStep ==
    \/ \E d \in Elapsed : WhenGateShouldPost(d)
    \/ \E d \in Elapsed : WhenGateUpdate(d)

(***************************************************************************)
(* llm_generator.py / backlog_generator.py: what a generation call returns *)
(***************************************************************************)

SEO_TARGET == 80
SeoRetries == 2

Post(body, score) == [body |-> body, seo_score |-> score]
NoPost == [body |-> <<>>, seo_score |-> -1]

\* What optimize_post_full can return: the optimised text is the LLM's, the
\* score 0.55 * the LLM's score + 0.45 * the heuristic one.
Optimized == {Post(b, sc) : b \in RunBodies, sc \in Scores}

\* Mutant: the newest optimisation result replaces the best one.
KeepBetter_Latest(best, new) == new

\* "if new_score > best_score: best_score = new_score; best_result = new_opt;
\*  final_body = ..."
KeepBetter(best, new) == IF new.seo_score > best.seo_score THEN new ELSE best

RECURSIVE SeoRetryLoop(_, _)
\* The loop "for retry in range(2)" of generate_post over the results of the
\* re-optimisations still to come, entered when best_score < SEO_TARGET and
\* left early when the target is reached.
SeoRetryLoop(best, results) ==
    IF results = <<>> \/ best.seo_score >= SEO_TARGET THEN best
    ELSE SeoRetryLoop(KeepBetter(best, Head(results)), Tail(results))

RECURSIVE SeoRetrySeen(_, _)
\* The re-optimisation results that loop looks at.
SeoRetrySeen(best, results) ==
    IF results = <<>> \/ best.seo_score >= SEO_TARGET THEN <<>>
    ELSE <<Head(results)>> \o SeoRetrySeen(KeepBetter(best, Head(results)), Tail(results))

\* LLMGenerator.generate_post from the first optimize_post_full on: opts[1] is
\* its result, opts[2..] those of the retries.
LlmPost(opts) == SeoRetryLoop(opts[1], Tail(opts))
LlmSeen(opts) == <<opts[1]>> \o SeoRetrySeen(opts[1], Tail(opts))

\* The inputs of one generate_repo_post(repo): how it ends ("none": the
\* repository details cannot be fetched; "llm": generate_post returns a post;
\* "template": it returns None or raises and the fallback body is scored once
\* by optimize_post) and the optimisation results it gets.
GenerationKinds == {"none", "llm", "template"}
OptimizationRuns == [1..(1 + SeoRetries) -> Optimized]

GenerateRepoPost(kind, opts) ==
    IF kind = "none" THEN NoPost
    ELSE IF kind = "llm" THEN LlmPost(opts)
    ELSE opts[1]

GenerateRepoSeen(kind, opts) ==
    IF kind = "none" THEN <<>>
    ELSE IF kind = "llm" THEN LlmSeen(opts)
    ELSE <<opts[1]>>

(***************************************************************************)
(* run.py: LinkedInAgent._generate_and_validate_post and                   *)
(* _regenerate_post_content                                                *)
(***************************************************************************)

MaxRegenerationAttemptsRun == 5
MIN_SEO_SCORE == 80
MAX_LOW_SEO_ATTEMPTS == 3

Sources == {"repo", "niche", "calendar", "trending", "fallback"}

\* No call of LLMGenerator.generate_post yet.
NoLlmCall == [candidate |-> "none", returned |-> "unset"]

\* The keyword parameters of the two generation functions.
GetNextRepoPostParams == {"skip_current"}
GetNichePostParams == {"topic", "template", "force_template_rotation"}

\* A call with keyword arguments kwargs binds iff the function has a
\* parameter for each; otherwise Python raises TypeError before the body runs.
Binds(params, kwargs) == kwargs \subseteq params

\* get_next_topic_strategy(): "repo" while repo_queue.json has pending repos,
\* else whatever the configuration, the calendar and the feeds give.
StrategySources(pending) ==
    IF pending # <<>> THEN {"repo"} ELSE Sources \ {"repo"}

\* The keyword arguments of the first generation call of a run.
InitialCallKwargs(source) ==
    IF source = "repo" THEN {} ELSE {"topic", "template", "context"}

\* The keyword arguments of the generation call of _regenerate_post_content.
RegenCallKwargs(source) ==
    IF source = "repo" THEN {"skip_current", "context"}
    ELSE {"topic", "template", "force_template_rotation", "context"}

CallBinds(source, kwargs) ==
    Binds(IF source = "repo" THEN GetNextRepoPostParams ELSE GetNichePostParams,
          kwargs)

\* _regenerate_post_content(...): the posts it can return, NoPost standing for
\* None. An exception of the generation call is caught and becomes None.
RegenerateResults(source) ==
    IF CallBinds(source, RegenCallKwargs(source)) THEN {NoPost} \cup Optimized
    ELSE {NoPost}

\* The history files a run may find: posts saved by earlier runs.
InitialHistories ==
    {<<>>,
     SavePost(<<>>, [body |-> B1, seo_score |-> 85], 1),
     SavePost(SavePost(<<>>, [body |-> B3, seo_score |-> 70], 1),
              [body |-> B1, seo_score |-> 85], 2)}

InitialRunQueues == {<<>>, <<"repoA">>, <<"repoA", "repoB">>}

HistoryInit ==
    /\ used_posts \in InitialHistories
    /\ now = Len(used_posts) + 1

HistoryIdleInit == used_posts = <<>> /\ now = 1 /\ DedupIdle

RunInit ==
    /\ pc = "start"
    /\ post_source = "none"
    /\ current_post = NoPost
    /\ is_dup = FALSE
    /\ attempts = 0
    /\ regeneration_count = 0
    /\ low_seo_attempts = 0
    /\ outcome = "running"
    /\ warned = FALSE
    /\ exhausted = FALSE
    /\ regenError = FALSE
    /\ regenCalls = 0
    /\ seen = <<>>
    /\ historyAtStart = used_posts
    /\ gen_attempts = 0
    /\ raw_text = "none"
    /\ llm_call = NoLlmCall

OutsideRun ==
    UNCHANGED <<lockVars, postVars, queueVars, dedupVars, schedVars, topicVars,
                toolVars>>

\* run.py:339-344: content_strategy = get_next_content_strategy().
SelectStrategy ==
    /\ pc = "start"
    /\ post_source' \in StrategySources(pending_repos)
    /\ pc' = "generate"
    /\ UNCHANGED <<current_post, is_dup, attempts, regeneration_count,
                   low_seo_attempts, outcome, warned, exhausted, regenError,
                   regenCalls, seen, historyAtStart, generator, gen_attempts, raw_text, llm_call>>
    /\ UNCHANGED <<backlogVars, historyVars>>
    /\ OutsideRun

\* run.py:346-363: the first generation call. A call that does not bind
\* raises TypeError, "if not initial_post" raises ValueError: both leave the
\* method through the decorator, which re-raises (critical=True). For source
\* "repo" the call is get_next_repo_post(): it pops the queue, records the
\* repo as used and calls generate_repo_post(repo), which returns None when the
\* repository's details cannot be fetched (fetched = FALSE) and otherwise
\* enters LLMGenerator.generate_post.
GenerateInitial(fetched) ==
    /\ pc = "generate"
    /\ IF ~CallBinds(post_source, InitialCallKwargs(post_source))
         THEN /\ pc' = "done"
              /\ outcome' = "failed"
              /\ UNCHANGED backlogVars
         ELSE LET k == PopIndex(pending_repos, FALSE)
              IN  IF post_source = "repo" /\ pending_repos # <<>>
                    THEN /\ pending_repos' = PopAt(pending_repos, k)
                         /\ used_list' = Append(used_list, pending_repos[k])
                         /\ IF ~fetched
                              THEN pc' = "done" /\ outcome' = "failed"
                              ELSE pc' = "llm_attempt" /\ UNCHANGED outcome
                    ELSE /\ pc' = "done"
                         /\ outcome' = "failed"
                         /\ UNCHANGED backlogVars
    /\ UNCHANGED <<post_source, current_post, is_dup, attempts, regeneration_count,
                   low_seo_attempts, warned, exhausted, regenError, regenCalls,
                   seen, historyAtStart, generator, gen_attempts, raw_text, llm_call>>
    /\ UNCHANGED historyVars
    /\ OutsideRun

\* llm_generator.py:376: max_attempts = 3.
MaxAttempts == 3

\* How the LLM service can behave over a whole run, and what one call of it
\* then gives: "error" (no text), "duplicate" (a text whose hash is in the
\* recent history), "invalid" (fails _validate_post_quality) or "valid".
GeneratorBehaviours == {"failing", "duplicating", "invalid", "any"}

GeneratorResults(behaviour) ==
    IF behaviour = "failing" THEN {"error"}
    ELSE IF behaviour = "duplicating" THEN {"duplicate"}
    ELSE IF behaviour = "invalid" THEN {"invalid"}
    ELSE {"error", "duplicate", "invalid", "valid"}

\* Mutant: the attempt counter is not incremented.
NextAttempt_Stuck(n) == n

\* "attempts += 1"
NextAttempt(n) == n + 1

\* llm_generator.py:441-453: generate_post goes on to a post iff the loop left
\* a text and _validate_post_quality, run again on that text, passes.
ReturnsPost(text) == text # "none" /\ text = "valid"

\* llm_generator.py:388-439: one turn of "while attempts < max_attempts". A
\* failed call and a hash duplicate "continue" with raw_text = None; an
\* invalid text continues too, except on the last attempt, where it breaks
\* with the text kept; a valid text breaks.
LlmAttempt(result) ==
    /\ pc = "llm_attempt"
    /\ gen_attempts < MaxAttempts
    /\ result \in GeneratorResults(generator)
    /\ result = "duplicate" => used_posts # <<>>
    /\ gen_attempts' = NextAttempt(gen_attempts)
    /\ IF result = "valid" \/ (result = "invalid" /\ ~(gen_attempts' < MaxAttempts))
         THEN /\ raw_text' = result
              /\ pc' = "llm_done"
         ELSE /\ raw_text' = "none"
              /\ pc' = IF gen_attempts' < MaxAttempts THEN "llm_attempt"
                        ELSE "llm_done"
    /\ llm_call' = [llm_call EXCEPT !.candidate = result]
    /\ UNCHANGED <<post_source, current_post, is_dup, attempts, regeneration_count,
                   low_seo_attempts, outcome, warned, exhausted, regenError,
                   regenCalls, seen, historyAtStart, generator>>
    /\ UNCHANGED <<backlogVars, historyVars>>
    /\ OutsideRun

\* llm_generator.py:441-495 and backlog_generator.py:94-125: without a text,
\* or with one that fails the quality validation, generate_post returns None
\* and generate_repo_post builds the template post, scored once; otherwise
\* the text goes through the SEO optimisation and its retries.
CompleteGeneration(opts) ==
    /\ pc = "llm_done"
    /\ LET kind == IF ReturnsPost(raw_text) THEN "llm" ELSE "template"
       IN  /\ current_post' = GenerateRepoPost(kind, opts)
           /\ seen' = GenerateRepoSeen(kind, opts)
           /\ llm_call' = [llm_call EXCEPT !.returned =
                              IF kind = "llm" THEN "post" ELSE "None"]
    /\ pc' = "check"
    /\ UNCHANGED <<post_source, is_dup, attempts, regeneration_count,
                   low_seo_attempts, outcome, warned, exhausted, regenError,
                   regenCalls, historyAtStart, generator, gen_attempts, raw_text>>
    /\ UNCHANGED <<backlogVars, historyVars>>
    /\ OutsideRun

\* run.py:370 with deduper.py:148-163: check_and_save_post(current_post,
\* self._regenerate_post_content) up to its loop. A post that is no duplicate
\* is saved and returned with is_original = True, which ends run.py's loop.
CheckAndSavePost ==
    /\ pc = "check"
    /\ is_dup' = IsDuplicate(current_post, used_posts)
    /\ attempts' = 0
    /\ IF is_dup'
         THEN /\ pc' = "regenerate"
              /\ UNCHANGED historyVars
         ELSE /\ used_posts' = SavePost(used_posts, current_post, now)
              /\ now' = now + 1
              /\ pc' = "low_seo"
    /\ UNCHANGED <<post_source, current_post, regeneration_count,
                   low_seo_attempts, outcome, warned, exhausted, regenError,
                   regenCalls, seen, historyAtStart, generator, gen_attempts, raw_text, llm_call>>
    /\ UNCHANGED backlogVars
    /\ OutsideRun

\* deduper.py:164-181: one turn of "while is_dup and attempts <
\* MAX_REGENERATION_ATTEMPTS". regenerate_func is _regenerate_post_content,
\* which picks a new strategy and calls the generation function. When it
\* returns None, is_duplicate(new_post) raises on new_post["body"]; "except
\* Exception" breaks out of the loop with current_post and is_dup as they were.
RegenerateForDuplicate ==
    /\ pc = "regenerate"
    /\ is_dup /\ attempts < MAX_REGENERATION_ATTEMPTS
    /\ attempts' = attempts + 1
    /\ regenCalls' = regenCalls + 1
    /\ \E new_source \in StrategySources(pending_repos) :
       \E new_post \in RegenerateResults(new_source) :
          IF new_post = NoPost
            THEN /\ regenError' = TRUE
                 /\ pc' = "save_anyway"
                 /\ UNCHANGED <<current_post, is_dup, seen, historyVars>>
            ELSE /\ is_dup' = IsDuplicate(new_post, used_posts)
                 /\ current_post' = new_post
                 /\ seen' = Append(seen, new_post)
                 /\ UNCHANGED regenError
                 /\ IF ~is_dup'
                      THEN /\ used_posts' = SavePost(used_posts, new_post, now)
                           /\ now' = now + 1
                           /\ pc' = "low_seo"
                      ELSE /\ UNCHANGED historyVars
                           /\ pc' = IF attempts' < MAX_REGENERATION_ATTEMPTS
                                      THEN "regenerate" ELSE "save_anyway"
    /\ UNCHANGED <<post_source, regeneration_count, low_seo_attempts, outcome,
                   warned, exhausted, historyAtStart, generator, gen_attempts, raw_text, llm_call>>
    /\ UNCHANGED backlogVars
    /\ OutsideRun

\* deduper.py:183-190 and run.py:371-381: after the loop the last post is
\* saved "anyway" and returned with is_original = not is_dup. run.py counts
\* it and either calls check_and_save_post again or, at the bound, records
\* post_uniqueness_failure and goes on with the post.
SaveAnyway ==
    /\ pc = "save_anyway"
    /\ used_posts' = SavePost(used_posts, current_post, now)
    /\ now' = now + 1
    /\ IF ~is_dup
         THEN /\ pc' = "low_seo"
              /\ UNCHANGED <<regeneration_count, exhausted>>
         ELSE /\ regeneration_count' = regeneration_count + 1
              /\ IF regeneration_count' >= MaxRegenerationAttemptsRun
                   THEN /\ exhausted' = TRUE
                        /\ pc' = "low_seo"
                   ELSE /\ UNCHANGED exhausted
                        /\ pc' = "check"
    /\ UNCHANGED <<post_source, current_post, is_dup, attempts,
                   low_seo_attempts, outcome, warned, regenError, regenCalls,
                   seen, historyAtStart, generator, gen_attempts, raw_text, llm_call>>
    /\ UNCHANGED backlogVars
    /\ OutsideRun

LowSeoLoopCondition ==
    /\ current_post.seo_score < MIN_SEO_SCORE
    /\ low_seo_attempts < MAX_LOW_SEO_ATTEMPTS

\* run.py:387-414: one turn of the low-SEO loop. "if regenerated_post is
\* None: break"; otherwise the regenerated post replaces current_post.
RegenerateForLowSeo ==
    /\ pc = "low_seo"
    /\ LowSeoLoopCondition
    /\ \E new_source \in StrategySources(pending_repos) :
       \E regenerated_post \in RegenerateResults(new_source) :
          IF regenerated_post = NoPost
            THEN /\ pc' = "final"
                 /\ UNCHANGED <<current_post, low_seo_attempts, seen>>
            ELSE /\ current_post' = regenerated_post
                 /\ low_seo_attempts' = low_seo_attempts + 1
                 /\ seen' = Append(seen, regenerated_post)
                 /\ UNCHANGED pc
    /\ UNCHANGED <<post_source, is_dup, attempts, regeneration_count, outcome,
                   warned, exhausted, regenError, regenCalls, historyAtStart, generator, gen_attempts, raw_text, llm_call>>
    /\ UNCHANGED <<backlogVars, historyVars>>
    /\ OutsideRun

\* run.py:416-439: the final_post_low_seo warning, then "return current_post".
FinishRun ==
    /\ pc = "final" \/ (pc = "low_seo" /\ ~LowSeoLoopCondition)
    /\ warned' = (current_post.seo_score < MIN_SEO_SCORE)
    /\ outcome' = "accepted"
    /\ pc' = "done"
    /\ UNCHANGED <<post_source, current_post, is_dup, attempts,
                   regeneration_count, low_seo_attempts, exhausted, regenError,
                   regenCalls, seen, historyAtStart, generator, gen_attempts, raw_text, llm_call>>
    /\ UNCHANGED <<backlogVars, historyVars>>
    /\ OutsideRun

RunStep ==
    \/ SelectStrategy
    \/ \E fetched \in BOOLEAN : GenerateInitial(fetched)
    \/ \E result \in {"error", "duplicate", "invalid", "valid"} : LlmAttempt(result)
    \/ \E opts \in OptimizationRuns : CompleteGeneration(opts)
    \/ CheckAndSavePost
    \/ RegenerateForDuplicate
    \/ SaveAnyway
    \/ RegenerateForLowSeo
    \/ FinishRun

\* C7: within one run, the number of times the generator is re-invoked
\* because a candidate was rejected as a duplicate never exceeds
\* MAX_REGENERATION_ATTEMPTS (3).
C7_DedupRegenerationsBounded == regenCalls <= MAX_REGENERATION_ATTEMPTS

\* The entries the run has appended to the history file.
SavedByRun == SubSeq(used_posts, Len(historyAtStart) + 1, Len(used_posts))

\* C8: when the dedup bound is exhausted with the last candidate still a
\* duplicate, the run fails closed: the duplicate is not saved to the history
\* and not returned as an accepted post.
C8_FailClosedOnExhaustion ==
    exhausted =>
        /\ \A i \in 1..Len(SavedByRun) : SavedByRun[i].body # current_post.body
        /\ outcome # "accepted"

\* C9: a run that ends Accepted has persisted exactly the post it returns; a
\* run that ends Failed (generation failure, dedup exhaustion, regeneration
\* error) leaves the persisted posts as they were before the run.
C9_PersistedIffAccepted ==
    pc = "done" =>
        IF outcome = "accepted" /\ ~exhausted /\ ~regenError
          THEN /\ Len(SavedByRun) = 1
               /\ SavedByRun[1].body = current_post.body
               /\ SavedByRun[1].seo_score = current_post.seo_score
               /\ SubSeq(used_posts, 1, Len(historyAtStart)) = historyAtStart
          ELSE used_posts = historyAtStart

C11_RunTerminates ==
    /\ [](/\ gen_attempts <= MaxAttempts
          /\ attempts <= MAX_REGENERATION_ATTEMPTS
          /\ regeneration_count <= MaxRegenerationAttemptsRun
          /\ low_seo_attempts <= MAX_LOW_SEO_ATTEMPTS)
    /\ <>(pc = "done" /\ outcome \in {"accepted", "failed"})

\* C11 witness: a run that used up the generator's attempts and the dedup
\* bound, and ended.
C11_Witness ==
    /\ pc = "done"
    /\ gen_attempts = MaxAttempts
    /\ regeneration_count = MaxRegenerationAttemptsRun

\* The LLM service failed on every call of the run and generate_post has used
\* up its attempts.
GeneratorExhausted == generator = "failing" /\ gen_attempts = MaxAttempts

\* A run whose generator failed three times and which all the same ended with
\* an accepted post (the fallback template of generate_repo_post) that it
\* appended to the history.
TemplateAcceptedAfterFailure ==
    /\ GeneratorExhausted
    /\ pc = "done" /\ outcome = "accepted"
    /\ current_post # NoPost
    /\ Len(SavedByRun) >= 1
    /\ SavedByRun[Len(SavedByRun)].body = current_post.body

\* C27: when the generator fails on every attempt, generation is retried at
\* most MaxAttempts (3) times and then the run fails: no post is returned (an
\* accepted post is what run() hands to the publisher), and nothing is saved
\* to the post history.
C27_GeneratorFailureFailsRun ==
    generator = "failing" =>
        /\ gen_attempts <= MaxAttempts
        /\ current_post = NoPost
        /\ used_posts = historyAtStart
        /\ (pc = "done" => outcome = "failed")

\* Entry k of the history file is the record of the run's current post, and
\* the post was no duplicate of the file as it was before that entry.
RecordedAfterPassing(k) ==
    /\ used_posts[k].body = current_post.body
    /\ used_posts[k].seo_score = current_post.seo_score
    /\ ~IsDuplicate(current_post, SubSeq(used_posts, 1, k - 1))

\* C31: every post handed to the publisher (the post an accepted run returns)
\* has itself passed the duplicate check against the post history and is the
\* post recorded in that history, a candidate regenerated for a low quality
\* score included.
C31_PublishedPostPassedDedup ==
    (pc = "done" /\ outcome = "accepted") =>
        \E k \in (Len(historyAtStart) + 1)..Len(used_posts) : RecordedAfterPassing(k)

\* What every accepted run does: the post it returns is the last entry it
\* appended to the history, duplicate or not.
AcceptedPostRecorded ==
    (pc = "done" /\ outcome = "accepted") =>
        /\ Len(SavedByRun) >= 1
        /\ SavedByRun[Len(SavedByRun)].body = current_post.body
        /\ SavedByRun[Len(SavedByRun)].seo_score = current_post.seo_score

\* A run that returns a post which failed every duplicate check it went
\* through.
DuplicateAccepted ==
    /\ pc = "done" /\ outcome = "accepted"
    /\ is_dup
    /\ IsDuplicate(current_post, historyAtStart)

\* What the run has taken from repo_queue.json: used_repos.json starts empty
\* and gets every popped repo.
RemovedByRun == used_list

\* C35: one orchestrator run removes at most one item from the pending repo
\* queue, and removes an item only when a post for it is produced:
\* regenerations after a duplicate or low-quality rejection and a failed
\* generation for the dequeued repo neither consume further items nor lose
\* the item.
C35_RunConsumesOneItemForOnePost ==
    /\ Len(RemovedByRun) <= 1
    /\ RemovedByRun \o pending_repos \in InitialRunQueues
    /\ (pc = "done" /\ RemovedByRun # <<>>) =>
          /\ outcome = "accepted"
          /\ current_post # NoPost

\* What holds: a run pops at most the head of the queue, once, whatever it
\* regenerates, and an accepted run has popped it.
RunPopsHeadOnce ==
    /\ Len(RemovedByRun) <= 1
    /\ RemovedByRun \o pending_repos \in InitialRunQueues
    /\ (pc = "done" /\ outcome = "accepted") => Len(RemovedByRun) = 1

\* A run that went through regenerations and left the rest of the queue alone.
RegeneratedWithoutPopping ==
    /\ pc = "done" /\ regenCalls >= 2
    /\ Len(RemovedByRun) = 1 /\ pending_repos # <<>>

\* The repo was popped, its details could not be fetched, and the run failed
\* without a post: the repo is in neither the queue nor a post.
ItemLostWithoutPost ==
    /\ pc = "done" /\ outcome = "failed"
    /\ Len(RemovedByRun) = 1
    /\ current_post = NoPost /\ seen = <<>>

\* C39: in LLMGenerator.generate_post a candidate that still fails the quality
\* validation on the last of the 3 attempts is accepted and returned as a
\* post, and a candidate whose body hash equals that of a recent post is
\* never returned.
C39_LastInvalidCandidateReturned ==
    llm_call.returned # "unset" =>
        /\ (llm_call.candidate = "invalid" /\ gen_attempts = MaxAttempts) =>
              llm_call.returned = "post"
        /\ llm_call.candidate = "duplicate" => llm_call.returned # "post"

\* What holds: generate_post returns a post exactly when its last candidate
\* passed the duplicate check and the quality validation; an invalid last
\* candidate, which only the third attempt can leave, gives None.
OnlyValidCandidateReturned ==
    llm_call.returned # "unset" =>
        /\ llm_call.returned = "post" <=> llm_call.candidate = "valid"
        /\ llm_call.candidate = "invalid" => gen_attempts = MaxAttempts
        /\ llm_call.candidate = "duplicate" => llm_call.returned = "None"

\* The third candidate failed the validation, generate_post returned None and
\* generate_repo_post went on with the template post.
LastInvalidGivesTemplate ==
    /\ pc = "check"
    /\ gen_attempts = MaxAttempts
    /\ llm_call = [candidate |-> "invalid", returned |-> "None"]
    /\ raw_text = "invalid"
    /\ Len(seen) = 1

\* Every candidate was a hash duplicate of a recent post and none was returned.
DuplicateCandidateDropped ==
    /\ pc = "check"
    /\ gen_attempts = MaxAttempts
    /\ llm_call = [candidate |-> "duplicate", returned |-> "None"]

\* The candidate's cosine similarity to one window entry, and its comparison to
\* the 0.8 threshold, written out on the term weights.
CheckedRecent == LoadRecentPosts(dcheck.file)
CheckedDocs == Corpus(dcheck.body, CheckedRecent)
CheckedCosine(d) == Similarities(CheckedDocs)[d]
AboveThreshold(x) ==
    /\ x.dot > 0
    /\ 25 * x.dot * x.dot > 16 * x.na * x.nb
AtThreshold(x) ==
    /\ x.dot > 0
    /\ 25 * x.dot * x.dot = 16 * x.na * x.nb

SharesToken(a, b) ==
    \E i \in 1..Len(Tokens(a)), j \in 1..Len(Tokens(b)) : Tokens(a)[i] = Tokens(b)[j]
SavedInWindow(body) == \E d \in 1..Len(CheckedRecent) : CheckedRecent[d].body = body
NoSharedToken ==
    \A d \in 1..Len(CheckedRecent) : ~SharesToken(dcheck.body, CheckedRecent[d].body)

\* C13 as stated: a candidate whose body was saved and is in the window is
\* flagged (True, that post); a candidate sharing no token with any window
\* entry is not flagged.
C13_SavedBodyFlagged ==
    dcheck.called =>
        /\ SavedInWindow(dcheck.body) =>
              /\ dcheck.result.is_dup
              /\ dcheck.result.similar_post.body = dcheck.body
        /\ NoSharedToken => ~dcheck.result.is_dup

\* C13, amended: a candidate whose saved body holds at least one term is
\* flagged, and the post returned is the newest window entry whose similarity
\* to it is the largest (the saved post itself unless another entry has the
\* same terms in the same proportions); a candidate sharing no token with any
\* window entry is not flagged.
C13_SavedTermsFlagged ==
    dcheck.called =>
        /\ (SavedInWindow(dcheck.body) /\ Tokens(dcheck.body) # <<>>) =>
              /\ dcheck.result.is_dup
              /\ \E d \in 1..Len(CheckedRecent) :
                    /\ dcheck.result.similar_post = CheckedRecent[d]
                    /\ Tokens(CheckedRecent[d].body) # <<>>
                    /\ \A e \in 1..Len(CheckedRecent) :
                          ~CosineLess(CheckedCosine(d), CheckedCosine(e))
                    /\ \A e \in 1..(d - 1) :
                          CosineLess(CheckedCosine(e), CheckedCosine(d))
              /\ (\A e \in 1..Len(CheckedRecent) :
                     CheckedRecent[e].body # dcheck.body =>
                         CosineLess(CheckedCosine(e),
                                    [dot |-> 1, na |-> 1, nb |-> 1]))
                   => dcheck.result.similar_post.body = dcheck.body
        /\ NoSharedToken => ~dcheck.result.is_dup

\* The saved body is not the newest entry of the window and is returned.
C13_Witness ==
    /\ dcheck.called
    /\ Len(CheckedRecent) >= 2
    /\ CheckedRecent[1].body # dcheck.body
    /\ Tokens(CheckedRecent[1].body) # <<>>
    /\ SavedInWindow(dcheck.body)
    /\ dcheck.result.is_dup
    /\ dcheck.result.similar_post.body = dcheck.body

\* C14: every call of update_next_post_time returns and persists a time
\* strictly greater than the next_post_time persisted before the call, whatever
\* that value and the current time are.
C14_AdvanceStrictlyGreater ==
    sched.op = "update_next_post_time" =>
        /\ sched.ok
        /\ sched.returned = state_json
        /\ state_json.set
        /\ sched.prev.set => state_json.t > sched.prev.t

\* C15: update_next_post_time sets the next time to max(base, now) + increment,
\* base being the previously persisted next time if there is one and today's
\* start time otherwise, and returns the value it persisted.
C15_AdvanceIsLaterPlusIncrement ==
    sched.op = "update_next_post_time" =>
        LET base == IF sched.prev.set THEN sched.prev.t
                    ELSE DayOf(wall_clock) * SlotsPerDay + StartSlot
            increment == IF cfg.has_increment THEN cfg.time_increment
                         ELSE DefaultIncrement
        IN /\ sched.ok
           /\ sched.returned = state_json
           /\ state_json.set
           /\ state_json.t = (IF base >= wall_clock THEN base ELSE wall_clock)
                                + increment

\* C16: should_post_now(force) returns True when force is set; otherwise True
\* when no next time is persisted, and with one persisted True exactly when
\* now >= that time; it never modifies the persisted state.
C16_ShouldPostNowContract ==
    sched.op = "should_post_now" =>
        /\ sched.result = (\/ sched.force
                           \/ ~sched.prev.set
                           \/ wall_clock >= sched.prev.t)
        /\ state_json = sched.prev

\* C38: the posting gate cannot get stuck: every should_post_now check made
\* once now has reached the persisted next post time returns True, however
\* late it is made (after when_gate's posting window too) and without the
\* force flag, as long as the schedule has not been advanced.
C38_GateOpenOnceDue ==
    (sched.op = "should_post_now" /\ sched.prev.set /\ wall_clock >= sched.prev.t)
        => sched.result

\* What holds: scheduler.should_post_now on a next post time scheduler.py
\* wrote is True from that time on, whatever the delay.
NaiveGateOpenOnceDue ==
    (/\ sched.op = "should_post_now" /\ sched.module = "scheduler"
     /\ sched.prev.set /\ ~sched.prev.aware
     /\ wall_clock >= sched.prev.t)
        => sched.result

\* run.py's gate, unforced, checked more than the window after a next post
\* time scheduler.py wrote, and open.
LateCheckAllowed ==
    /\ sched.op = "should_post_now" /\ sched.module = "scheduler" /\ ~sched.force
    /\ sched.prev.set /\ ~sched.prev.aware
    /\ wall_clock > sched.prev.t + WindowSlots
    /\ sched.result

\* run.py's gate, unforced, closed although the next post time when_gate.py
\* persisted has been reached.
AwareTimeClosesGate ==
    /\ sched.op = "should_post_now" /\ sched.module = "scheduler" /\ ~sched.force
    /\ sched.prev.set /\ sched.prev.aware
    /\ wall_clock >= sched.prev.t
    /\ ~sched.result

\* when_gate's own gate, closed after its window with the increment configured.
WindowPassedClosesGate ==
    /\ sched.op = "should_post_now" /\ sched.module = "when_gate"
    /\ cfg.has_increment
    /\ sched.prev.set
    /\ wall_clock > sched.prev.t + WindowSlots
    /\ ~sched.result

(***************************************************************************)
(* content_strategy.py: topic selection, the niche round robin and the     *)
(* topic history.  save_topic_history, load_topic_history and              *)
(* is_topic_cooldown are imported by run.py and by the tests but defined   *)
(* in no source file at hand: they are modelled from the specification     *)
(* and from tests/test_topic_cooldown.py.                                  *)
(***************************************************************************)
\* config.yaml niches, after load_niches_list's filter.
NicheList == <<"nicheA", "nicheB", "nicheC">>
NicheConfigs == {SubSeq(NicheList, 1, n) : n \in 0..Len(NicheList)}
Topics == {NicheList[i] : i \in 1..Len(NicheList)}
\* is_topic_cooldown(topic, days=14)
DEFAULT_COOLDOWN_DAYS == 14
\* save_topic_history keeps the last 100 entries.
TOPIC_HISTORY_LIMIT == 100
MaxRuns == 4
MaxDay == 16
MaxSaves == 2

\* idx = (idx + 1) % len(niches)
NextNicheIndex_Stay(idx, n) == (idx + n) % n
NextNicheIndex(idx, n) == (idx + 1) % n

\* is_topic_cooldown(topic, days): an entry of the topic younger than days.
IsTopicCooldown(history, topic, days, t) ==
    \E i \in 1..Len(history) :
        /\ history[i].topic = topic
        /\ t - history[i].timestamp < days

\* The last n elements of s: s[-n:].
LastN(s, n) == IF Len(s) <= n THEN s ELSE SubSeq(s, Len(s) - n + 1, Len(s))

\* save_topic_history(topic): append, keep the last 100.
SaveTopicHistory_Unbounded(history, topic, t) ==
    Append(history, [topic |-> topic, timestamp |-> t])
SaveTopicHistory(history, topic, t) ==
    LastN(Append(history, [topic |-> topic, timestamp |-> t]), TOPIC_HISTORY_LIMIT)

\* get_next_topic_strategy() writes niche_index.json only: the topic history
\* after a selection is the one before it.
HistoryAfterSelection_Saved(history, topic, t) == SaveTopicHistory(history, topic, t)
HistoryAfterSelection(history, topic, t) == history

\* run.py:558-562: nothing is saved after publishing either.
HistoryAfterPublish(history, topic, t) == history

\* What the calendar and the ArXiv feed give a selection: a topic or none.
Feeds == [calendar : BOOLEAN, trending : BOOLEAN]
NoFeeds == [calendar |-> FALSE, trending |-> FALSE]
FALLBACK_TOPIC == "Artificial Intelligence and Machine Learning"

\* get_next_topic_strategy(): the source of the topic it returns. Strategy 1
\* the head of the repo queue, 2 the next niche, 3 the calendar topic of the
\* weekday, 4 the first trending topic, then the generic topic.
TopicSource(pending, niche_cfg, feeds) ==
    IF pending # <<>> THEN "repo"
    ELSE IF niche_cfg # <<>> THEN "niche"
    ELSE IF feeds.calendar THEN "calendar"
    ELSE IF feeds.trending THEN "trending"
    ELSE "fallback"

NoStrategy == [source |-> "none", topic |-> "none", feeds |-> NoFeeds]
NeverRecorded == [t |-> -1, since |-> 0]

TopicIdleInit ==
    /\ niches = <<>>
    /\ niche_index = -1
    /\ topic_history = <<>>
    /\ today = 0
    /\ tpc = "idle"
    /\ strategy = NoStrategy
    /\ picked = <<>>
    /\ cursor0 = -1
    /\ runs = 0
    /\ recorded = [x \in Topics |-> NeverRecorded]
    /\ saves = 0

OutsideTopics ==
    UNCHANGED <<lockVars, postVars, queueVars, historyVars, dedupVars, runVars,
                schedVars,
                toolVars>>

\* get_next_content_strategy(): the next repo while repos are pending; else,
\* with niches configured, get_next_niche_round_robin(), which persists the
\* index it returns; else the calendar topic, the trending topic or the
\* generic one. strategy.feeds records what the feeds gave this call.
GetNextContentStrategy(feeds) ==
    /\ tpc = "idle"
    /\ runs < MaxRuns
    /\ runs' = runs + 1
    /\ tpc' = "selected"
    /\ LET source == TopicSource(pending_repos, niches, feeds)
       IN IF source = "repo"
            THEN /\ strategy' = [source |-> source, topic |-> pending_repos[1],
                                 feeds |-> feeds]
                 /\ UNCHANGED <<niche_index, picked>>
            ELSE IF source = "niche"
            THEN /\ niche_index' = NextNicheIndex(niche_index, Len(niches))
                 /\ strategy' = [source |-> source, topic |-> niches[niche_index' + 1],
                                 feeds |-> feeds]
                 /\ picked' = Append(picked, niches[niche_index' + 1])
            ELSE /\ strategy' = [source |-> source,
                                 topic |-> IF source = "fallback" THEN FALLBACK_TOPIC
                                           ELSE source,
                                 feeds |-> feeds]
                 /\ UNCHANGED <<niche_index, picked>>
    /\ topic_history' = HistoryAfterSelection(topic_history, strategy'.topic, today)
    /\ UNCHANGED <<niches, today, cursor0, recorded, saves>>
    /\ UNCHANGED backlogVars
    /\ OutsideTopics

\* run.py:339-421, as far as the topic files go: the run ends with a post or
\* without one; a repo run has taken its repo off the queue. A first call that
\* does not bind its keyword arguments always fails.
GenerateAndValidatePost(result) ==
    /\ tpc = "selected"
    /\ \/ result = "failed"
       \/ result = "accepted"
          /\ CallBinds(strategy.source, InitialCallKwargs(strategy.source))
    /\ tpc' = result
    /\ IF strategy.source = "repo" /\ pending_repos # <<>>
             /\ CallBinds(strategy.source, InitialCallKwargs(strategy.source))
         THEN /\ pending_repos' = PopAt(pending_repos, PopIndex(pending_repos, FALSE))
              /\ used_list' = Append(used_list, pending_repos[1])
         ELSE UNCHANGED backlogVars
    /\ UNCHANGED <<niches, niche_index, topic_history, today, strategy, picked,
                   cursor0, runs, recorded, saves>>
    /\ OutsideTopics

\* run.py:551-562: publish; self.posted says whether a post was made.
PublishToLinkedin(posted) ==
    /\ tpc = "accepted"
    /\ tpc' = IF posted THEN "posted" ELSE "not_posted"
    /\ topic_history' = IF posted
                          THEN HistoryAfterPublish(topic_history, strategy.topic, today)
                          ELSE topic_history
    /\ UNCHANGED <<niches, niche_index, today, strategy, picked, cursor0, runs,
                   recorded, saves>>
    /\ UNCHANGED backlogVars
    /\ OutsideTopics

\* The process ends; the next run starts the same day or a later one.
NextRun(d) ==
    /\ tpc \in {"failed", "posted", "not_posted"}
    /\ today + d <= MaxDay
    /\ today' = today + d
    /\ tpc' = "idle"
    /\ UNCHANGED <<niches, niche_index, topic_history, strategy, picked, cursor0,
                   runs, recorded, saves>>
    /\ UNCHANGED backlogVars
    /\ OutsideTopics

TopicRunStep ==
    \/ \E feeds \in Feeds : GetNextContentStrategy(feeds)
    \/ \E result \in {"failed", "accepted"} : GenerateAndValidatePost(result)
    \/ \E posted \in BOOLEAN : PublishToLinkedin(posted)
    \/ \E d \in {0, 1, DEFAULT_COOLDOWN_DAYS} : NextRun(d)

\* save_topic_history(topic), as the tests call it.
SaveTopic(topic) ==
    /\ saves < MaxSaves
    /\ saves' = saves + 1
    /\ topic_history' = SaveTopicHistory(topic_history, topic, today)
    /\ recorded' = [x \in Topics |->
                      IF x = topic THEN [t |-> today, since |-> 0]
                      ELSE IF recorded[x].t >= 0
                        THEN [recorded[x] EXCEPT !.since = @ + 1]
                        ELSE recorded[x]]
    /\ UNCHANGED <<niches, niche_index, today, tpc, strategy, picked, cursor0, runs>>
    /\ UNCHANGED backlogVars
    /\ OutsideTopics

\* A day passes.
DayPasses ==
    /\ today < MaxDay
    /\ today' = today + 1
    /\ UNCHANGED <<niches, niche_index, topic_history, tpc, strategy, picked,
                   cursor0, runs, recorded, saves>>
    /\ UNCHANGED backlogVars
    /\ OutsideTopics

CooldownStep ==
    \/ \E topic \in Topics : SaveTopic(topic)
    \/ DayPasses

\* The niche that is k places after the cursor idx in the list, cyclically.
NicheAfter(idx, k) == niches[((idx + k) % Len(niches)) + 1]

\* C17: with N niches and no repo pending, the selections return the niches
\* in list order starting after the persisted cursor: any N successive ones
\* are N different niches, and the one after them is the first of them again.
\* (The selection does not look at cooldowns, so this holds with them too.)
C17_RoundRobinCoverage ==
    (niches # <<>> /\ pending_repos = <<>> /\ used_list = <<>>) =>
        /\ \A k \in 1..Len(picked) : picked[k] = NicheAfter(cursor0, k)
        /\ \A i \in 1..Len(picked), j \in 1..Len(picked) :
              (i < j /\ j < i + Len(niches)) => picked[i] # picked[j]
        /\ \A i \in 1..Len(picked) :
              i + Len(niches) <= Len(picked) => picked[i + Len(niches)] = picked[i]

\* Three niches, four selections: the fourth is the first again.
C17_Witness ==
    /\ Len(niches) = 3
    /\ Len(picked) = 4
    /\ cursor0 >= 0
    /\ used_list = <<>>
    /\ picked[4] = picked[1]
    /\ picked[1] # picked[2] /\ picked[2] # picked[3] /\ picked[1] # picked[3]

\* The cursor before the last niche selection.
PrevCursor ==
    IF Len(picked) <= 1 THEN cursor0
    ELSE (CHOOSE i \in 1..Len(niches) : niches[i] = picked[Len(picked) - 1]) - 1

OnCooldown(topic) ==
    IsTopicCooldown(topic_history, topic, DEFAULT_COOLDOWN_DAYS, today)

\* C18: a niche selection returns the first niche after the cursor that is not
\* on cooldown and persists its index; only when all niches are on cooldown
\* does it return the niche at idx + 1 mod N.
C18_SkipsNichesOnCooldown ==
    (tpc = "selected" /\ strategy.source = "niche") =>
        LET N == Len(niches)
            Free == {k \in 1..N : ~OnCooldown(NicheAfter(PrevCursor, k))}
            k == IF Free = {} THEN 1 ELSE CHOOSE f \in Free : \A g \in Free : f <= g
        IN /\ strategy.topic = NicheAfter(PrevCursor, k)
           /\ niche_index = (PrevCursor + k) % N

LimbBase == 2^13

Limb(a, i) == IF i <= Len(a) THEN a[i] ELSE 0

RECURSIVE Trim(_)
Trim(a) ==
    IF a = <<>> THEN a
    ELSE IF a[Len(a)] = 0 THEN Trim(SubSeq(a, 1, Len(a) - 1))
    ELSE a

RECURSIVE Carry(_, _, _)
Carry(cols, i, c) ==
    IF i > Len(cols) /\ c = 0 THEN <<>>
    ELSE LET x == Limb(cols, i) + c
         IN <<x % LimbBase>> \o Carry(cols, i + 1, x \div LimbBase)

BigNorm(cols) == Trim(Carry(cols, 1, 0))

BigAdd(a, b) ==
    BigNorm([i \in 1..(IF Len(a) < Len(b) THEN Len(b) ELSE Len(a)) |->
                Limb(a, i) + Limb(b, i)])

\* a - b for a >= b
BigSub(a, b) == BigNorm([i \in 1..Len(a) |-> a[i] - Limb(b, i)])

RECURSIVE MulCol(_, _, _, _)
MulCol(a, b, k, i) ==
    IF i > Len(a) \/ i > k THEN 0
    ELSE a[i] * Limb(b, k + 1 - i) + MulCol(a, b, k, i + 1)

BigMul(a, b) ==
    IF a = <<>> \/ b = <<>> THEN <<>>
    ELSE BigNorm([k \in 1..(Len(a) + Len(b) - 1) |-> MulCol(a, b, k, 1)])

BigLess(a, b) ==
    IF Len(a) # Len(b) THEN Len(a) < Len(b)
    ELSE LET D == {i \in 1..Len(a) : a[i] # b[i]}
         IN D # {} /\ LET m == CHOOSE x \in D : \A j \in D : j <= x
                      IN a[m] < b[m]

Pow2Big(k) ==
    [i \in 1..(k \div 13 + 1) |-> IF i = k \div 13 + 1 THEN 2^(k % 13) ELSE 0]

ShiftLeft(a, k) == BigMul(a, Pow2Big(k))

ShiftRight(a, k) ==
    LET d == k \div 13
        r == k % 13
    IN IF d >= Len(a) THEN <<>>
       ELSE Trim([i \in 1..(Len(a) - d) |->
                    (a[d + i] \div 2^r) + (Limb(a, d + i + 1) % 2^r) * 2^(13 - r)])

BitLen(a) ==
    IF a = <<>> THEN 0
    ELSE 13 * (Len(a) - 1) + (CHOOSE n \in 1..13 : 2^(n - 1) <= a[Len(a)] /\ a[Len(a)] < 2^n)

IsOdd(a) == a # <<>> /\ a[1] % 2 = 1

\* A float64 that is not negative: m * 2^e with 2^52 <= m < 2^53, or zero.
\* Every operation gives the double nearest to the exact result, ties to even.
Precision == 53
FZero == [m |-> <<>>, e |-> 0]

\* The double nearest to N * 2^e (ties to even); inexact says that the exact
\* value is a little above N * 2^e (by less than 2^e).
Round(N, e, inexact) ==
    IF N = <<>> THEN FZero
    ELSE Only({
        IF L <= Precision
          THEN [m |-> ShiftLeft(N, Precision - L), e |-> e - (Precision - L)]
          ELSE Only({
              Only({IF BitLen(q1) > Precision
                      THEN [m |-> ShiftRight(q1, 1), e |-> e + (L - Precision) + 1]
                      ELSE [m |-> q1, e |-> e + (L - Precision)] :
                    q1 \in {Only({IF BigLess(Pow2Big(L - Precision - 1), rem)
                                       \/ (rem = Pow2Big(L - Precision - 1)
                                              /\ (inexact \/ IsOdd(q)))
                                    THEN BigAdd(q, <<1>>) ELSE q :
                                  rem \in {BigSub(N, ShiftLeft(q, L - Precision))}})}}) :
              q \in {ShiftRight(N, L - Precision)}}) :
        L \in {BitLen(N)}})

FromNat(n) == Round(BigNorm(<<n>>), 0, FALSE)

FMul(x, y) ==
    IF x.m = <<>> \/ y.m = <<>> THEN FZero
    ELSE Round(BigMul(x.m, y.m), x.e + y.e, FALSE)

FAdd(x, y) ==
    IF x.m = <<>> THEN y
    ELSE IF y.m = <<>> THEN x
    ELSE LET e == IF x.e < y.e THEN x.e ELSE y.e
         IN Round(BigAdd(ShiftLeft(x.m, x.e - e), ShiftLeft(y.m, y.e - e)), e, FALSE)

\* One more bit of r / d after the bits q, for r < 2d.
DivStep(st, d) ==
    IF BigLess(st.r, d)
      THEN [r |-> BigAdd(st.r, st.r), q |-> BigAdd(st.q, st.q)]
      ELSE Only({[r |-> BigAdd(r1, r1), q |-> BigAdd(BigAdd(st.q, st.q), <<1>>)] :
                 r1 \in {BigSub(st.r, d)}})

RECURSIVE DivSteps(_, _, _)
\* k steps, halving k so that the evaluation stays shallow.
DivSteps(st, d, k) ==
    IF k = 0 THEN st
    ELSE IF k = 1 THEN DivStep(st, d)
    ELSE Only({DivSteps(mid, d, k - k \div 2) : mid \in {DivSteps(st, d, k \div 2)}})

\* x / y for y # 0
FDiv(x, y) ==
    IF x.m = <<>> THEN FZero
    ELSE Only({Round(qr.q, x.e - y.e - (Precision + 2), qr.r # <<>>) :
               qr \in {DivSteps([r |-> x.m, q |-> <<>>], y.m, Precision + 3)}})

\* Bit i of the root of N: set when the square stays at most N.
SqrtStep(st, N) ==
    Only({[s |-> IF BigLess(N, BigMul(t, t)) THEN st.s ELSE t, i |-> st.i - 1] :
          t \in {BigAdd(st.s, Pow2Big(st.i))}})

RECURSIVE SqrtSteps(_, _, _)
SqrtSteps(st, N, k) ==
    IF k = 0 THEN st
    ELSE IF k = 1 THEN SqrtStep(st, N)
    ELSE Only({SqrtSteps(mid, N, k - k \div 2) : mid \in {SqrtSteps(st, N, k \div 2)}})

\* The largest natural number whose square is at most N < 2^(2 * Precision + 4).
Isqrt(N) == SqrtSteps([s |-> <<>>, i |-> Precision + 1], N, Precision + 2).s

\* The shift that makes the exponent even and leaves room for the root's bits.
SqrtShift(e) ==
    IF (e - (Precision + 1)) % 2 = 0 THEN Precision + 1 ELSE Precision + 2

FSqrt(x) ==
    IF x.m = <<>> THEN FZero
    ELSE Only({Only({Round(root, (x.e - SqrtShift(x.e)) \div 2,
                           BigMul(root, root) # N) :
                     root \in {Isqrt(N)}}) :
               N \in {ShiftLeft(x.m, SqrtShift(x.e))}})

FLess(x, y) ==
    IF y.m = <<>> THEN FALSE
    ELSE IF x.m = <<>> THEN TRUE
    ELSE IF x.e # y.e THEN x.e < y.e
    ELSE BigLess(x.m, y.m)

FOne == FromNat(1)
\* The double after 1.0: 1.0000000000000002
FOneNext == [m |-> <<1, 0, 0, 0, 1>>, e |-> -52]
\* The double before 1.0: 0.9999999999999999
FOnePrev == [m |-> <<8191, 8191, 8191, 8191, 1>>, e |-> -53]

\* Mantissa and exponent of a double in [1, 2).
Double(m) == [m |-> m, e |-> -52]

\* np.log((1 + n) / (1 + df)) + 1 to the nearest double, FloatIdf[n][df] for a
\* corpus of n documents:
\*   n = 2:  1.4054651081081644  1.0
\*   n = 3:  1.6931471805599454  1.2876820724517808  1.0
\*   n = 4:  1.916290731874155   1.5108256237659907  1.2231435513142097  1.0
FloatIdf ==
    << <<FOne>>,
       <<Double(<<1555, 6527, 4670, 3321, 1>>), FOne>>,
       <<Double(<<7416, 7144, 2143, 5678, 1>>), Double(<<5860, 617, 5665, 2356, 1>>),
         FOne>>,
       <<Double(<<4156, 899, 2078, 7506, 1>>), Double(<<2601, 2564, 5599, 4184, 1>>),
         Double(<<4932, 1946, 8126, 1827, 1>>), FOne>> >>

\* CountVectorizer sorts the vocabulary: the columns in alphabetical order.
TermsInOrder == <<"ai", "drug", "graph", "nlp">>
FeatureNames(docs) == SelectSeq(TermsInOrder, LAMBDA w : w \in Vocabulary(docs))

RECURSIVE FDotFrom(_, _, _, _)
\* sum of x[k] * y[k] from column k on, added to acc in column order.
FDotFrom(x, y, k, acc) ==
    IF k > Len(x) THEN acc
    ELSE Only({FDotFrom(x, y, k + 1, next) : next \in {FAdd(acc, FMul(x[k], y[k]))}})

FDot(x, y) == FDotFrom(x, y, 1, FZero)

\* normalize(X, norm="l2") on one row: a zero row is left alone.
NormalizeL2(x) ==
    Only({IF norm = FZero THEN x ELSE [k \in DOMAIN x |-> FDiv(x[k], norm)] :
          norm \in {FSqrt(FDot(x, x))}})

\* fit_transform(all_texts): tf * idf per column, every row normalised.
FloatTfidfMatrix(docs) ==
    Only({[d \in 1..Len(docs) |->
              NormalizeL2([k \in 1..Len(features) |->
                  IF Tf(docs[d], features[k]) = 0 THEN FZero
                  ELSE FMul(FromNat(Tf(docs[d], features[k])),
                            FloatIdf[Len(docs)][Df(docs, features[k])])])] :
          features \in {FeatureNames(docs)}})

\* cosine_similarity(candidate_vector, recent_vectors): both sides are
\* normalised again, then multiplied.
FloatSimilarities(docs) ==
    Only({Only({[d \in 1..(Len(docs) - 1) |->
                    FDot(candidate_vector, NormalizeL2(tfidf_matrix[d]))] :
                candidate_vector \in {NormalizeL2(tfidf_matrix[Len(docs)])}}) :
          tfidf_matrix \in {FloatTfidfMatrix(docs)}})

\* np.argmax(similarities): the first index of the largest value.
FloatArgMax(similarities) ==
    CHOOSE i \in 1..Len(similarities) :
        /\ \A j \in 1..Len(similarities) : ~FLess(similarities[i], similarities[j])
        /\ \A j \in 1..(i - 1) : FLess(similarities[j], similarities[i])

\* calculate_similarity(candidate_text, recent_posts) with the values of the
\* float64 computation.
FloatCalculateSimilarity(candidate_text, recent) ==
    Only({IF recent = <<>> \/ FitTransformRaises(docs)
            THEN [max_similarity |-> FZero, most_similar_post |-> NoEntry]
            ELSE Only({Only({[max_similarity |-> similarities[max_index],
                              most_similar_post |->
                                  IF similarities[max_index] # FZero
                                    THEN recent[max_index] ELSE NoEntry] :
                             max_index \in {FloatArgMax(similarities)}}) :
                       similarities \in {FloatSimilarities(docs)}}) :
          docs \in {Corpus(candidate_text, recent)}})

\* The bodies of the window entries and of the candidate: B1 and B1x have the
\* same terms, B6 has none, B7 shares no term with the others.
SimilarityBodies == {B1, B1x, B4, B6, B7}
MaxWindow == 2

\* The windows load_recent_posts() can return: newest first.
Windows ==
    UNION {{[i \in 1..n |-> [body |-> bodies[i], seo_score |-> 70,
                              timestamp |-> n + 1 - i]] :
            bodies \in [1..n -> SimilarityBodies]} : n \in 0..MaxWindow}

NoSimilarityCall == [called |-> FALSE, candidate_text |-> <<>>, recent |-> <<>>,
                     max_similarity |-> FZero, most_similar_post |-> NoEntry]

\* calculate_similarity(candidate_text, recent) is called.
CalculateSimilarityCall(candidate_text, recent) ==
    /\ ~sim.called
    /\ sim' = Only({[called |-> TRUE, candidate_text |-> candidate_text,
                     recent |-> recent, max_similarity |-> r.max_similarity,
                     most_similar_post |-> r.most_similar_post] :
                    r \in {FloatCalculateSimilarity(candidate_text, recent)}})
    /\ UNCHANGED <<retry, tagged, pub, rq, cc>>
    /\ UNCHANGED <<lockVars, postVars, queueVars, backlogVars, historyVars, dedupVars,
                   runVars, schedVars, topicVars>>

SimilarityStep ==
    \E candidate_text \in SimilarityBodies, recent \in Windows :
       CalculateSimilarityCall(candidate_text, recent)

\* The candidate's text is the text of a window entry.
IdenticalToEntry ==
    \E i \in 1..Len(sim.recent) : sim.recent[i].body = sim.candidate_text

\* The candidate has no term in common with any window entry.
DisjointFromWindow ==
    \A i \in 1..Len(sim.recent) :
       \A w \in Vocabulary(<<Tokens(sim.candidate_text)>>) :
          Tf(Tokens(sim.recent[i].body), w) = 0

\* C29: the similarity calculate_similarity returns is within [0, 1]; it is
\* 1.0 for a candidate identical to a window entry and 0.0 for a candidate
\* whose vocabulary is disjoint from every window entry.
C29_SimilarityInUnitInterval ==
    sim.called =>
        /\ ~FLess(sim.max_similarity, FZero)
        /\ ~FLess(FOne, sim.max_similarity)
        /\ IdenticalToEntry => sim.max_similarity = FOne
        /\ DisjointFromWindow => sim.max_similarity = FZero

\* What holds of the float64 result: it is at most one unit in the last place
\* above 1.0, 0.0 for a disjoint vocabulary, and within one unit in the last
\* place of 1.0 for a candidate identical to an entry that has a term.
SimilarityUpToRounding ==
    sim.called =>
        /\ ~FLess(FOneNext, sim.max_similarity)
        /\ DisjointFromWindow => sim.max_similarity = FZero
        /\ (IdenticalToEntry /\ Tokens(sim.candidate_text) # <<>>) =>
              sim.max_similarity \in {FOnePrev, FOne, FOneNext}

\* A candidate identical to the one window entry, for which 1.0000000000000002
\* is returned.
IdenticalAboveOne ==
    /\ sim.called /\ Len(sim.recent) = 1
    /\ sim.recent[1].body = sim.candidate_text
    /\ sim.max_similarity = FOneNext

\* A candidate identical to a window entry made of stop words only: 0.0.
IdenticalWithoutTerms ==
    /\ sim.called /\ IdenticalToEntry
    /\ sim.candidate_text = B6
    /\ sim.max_similarity = FZero

(***************************************************************************)
(* self_healer.py: retry_with_backoff(func, max_retries)                   *)
(***************************************************************************)
MAX_RETRIES == 3
RETRY_DELAY == 5
MaxRetriesTried == 4
Exceptions == {"Timeout", "Refused"}

RetryIdle == [pc |-> "idle", max_retries |-> 0, retries |-> 0, calls |-> 0,
              errors |-> <<>>, delay |-> 0, slept |-> <<>>, result |-> 0,
              raised |-> "none"]
OutsideTools ==
    UNCHANGED <<lockVars, postVars, queueVars, backlogVars, historyVars, dedupVars,
                runVars, schedVars, topicVars>>

\* "delay = RETRY_DELAY * (2 ** (retries - 1))", retries counting the failures.
BackoffDelay(retries) == RETRY_DELAY * 2^(retries - 1)

\* retry_with_backoff(func, max_retries = m) is called: retries = 0.
RetryWithBackoff(m) ==
    /\ retry.pc = "idle"
    /\ retry' = [RetryIdle EXCEPT !.pc = "calling", !.max_retries = m]
    /\ UNCHANGED <<tagged, pub, sim, rq, cc>>
    /\ OutsideTools

\* "return func(*args, **kwargs)": the call returns, and so does the function.
\* The result is numbered by the call that gave it.
FuncReturns ==
    /\ retry.pc = "calling"
    /\ retry.retries <= retry.max_retries
    /\ retry' = [retry EXCEPT !.calls = @ + 1, !.result = retry.calls + 1,
                              !.pc = "returned"]
    /\ UNCHANGED <<tagged, pub, sim, rq, cc>>
    /\ OutsideTools

\* The call raises e: one more retry is counted; beyond max_retries the
\* exception is raised again, else the delay is computed and slept.
FuncRaises(e) ==
    /\ retry.pc = "calling"
    /\ retry.retries <= retry.max_retries
    /\ LET retries == retry.retries + 1
       IN retry' = IF retries > retry.max_retries
                     THEN [retry EXCEPT !.calls = @ + 1, !.errors = Append(@, e),
                                        !.retries = retries, !.raised = e,
                                        !.pc = "raised"]
                     ELSE [retry EXCEPT !.calls = @ + 1, !.errors = Append(@, e),
                                        !.retries = retries,
                                        !.delay = BackoffDelay(retries),
                                        !.pc = "sleeping"]
    /\ UNCHANGED <<tagged, pub, sim, rq, cc>>
    /\ OutsideTools

\* time.sleep(delay) is over: the loop goes round.
SleepOver ==
    /\ retry.pc = "sleeping"
    /\ retry' = [retry EXCEPT !.slept = Append(@, retry.delay), !.pc = "calling"]
    /\ UNCHANGED <<tagged, pub, sim, rq, cc>>
    /\ OutsideTools

RetryStep ==
    \/ \E m \in 0..MaxRetriesTried : RetryWithBackoff(m)
    \/ FuncReturns
    \/ \E e \in Exceptions : FuncRaises(e)
    \/ SleepOver

(***************************************************************************)
(* self_healer.py: RetryQueue, handle_error and process_retry_queue         *)
(***************************************************************************)

\* 7 days, the max_age_days of clean_queue, are over for an item once
\* WeekPasses has happened after it was added.
MaxItemsAdded == 2

\* settled: the serial numbers of the items that were given the status
\* success or max_retries_reached.
RqIdle == [items |-> <<>>, added |-> 0, settled |-> {}]

\* The item types process_retry_queue knows, and one it does not.
ItemTypes == {"post", "email", "report"}

\* retry_item: None, or a dict with "type", "data" and, optionally,
\* "max_retries" (MAX_RETRIES when absent).
NoRetryItem == [type |-> "none", max_retries |-> 0]
RetryItems == {[type |-> t, max_retries |-> k] : t \in ItemTypes, k \in 1..MAX_RETRIES}

\* Times are kept relative to the clock: wait is the number of seconds until
\* next_retry (0 when it has passed), old tells that created_at is more than
\* 7 days ago.
TickSeconds == {RETRY_DELAY, 8 * RETRY_DELAY}

\* RetryQueue.add_item(item_type, item_data, max_retries): a pending item due
\* at once. The id is the type and the second of the call, here the serial
\* number of the call (the calls fall into different seconds).
AddItem(q, item_type, max_retries) ==
    [items |-> Append(q.items,
                      [id |-> <<item_type, q.added + 1>>, type |-> item_type,
                       retry_count |-> 0, max_retries |-> max_retries,
                       wait |-> 0, old |-> FALSE, status |-> "pending"]),
     added |-> q.added + 1,
     settled |-> q.settled]

\* handle_error(error, phase, retry_item=retry_item, retry=retry): "if retry or
\* retry_item:" a RetryQueue is loaded, and "if retry_item:" the item is added.
HandleError(q, retry_flag, retry_item) ==
    IF (retry_flag \/ retry_item # NoRetryItem) /\ retry_item # NoRetryItem
      THEN AddItem(q, retry_item.type, retry_item.max_retries)
      ELSE q

\* The wrapper of handled_operation(error_phase, retry=retry) on an exception
\* of the wrapped method: retry_item = kwargs.get("retry_item", None), and no
\* call of run() passes that keyword.
HandledOperation(q, retry_flag) == HandleError(q, retry_flag, NoRetryItem)

\* RetryQueue.get_pending_items(): the positions of the pending items whose
\* next_retry has passed.
GetPendingItems(items) ==
    {i \in 1..Len(items) : items[i].status = "pending" /\ items[i].wait = 0}

\* RetryQueue.update_item_status(item_id, status): the first item with the id
\* gets the status; for "failed" its retry_count is incremented, next_retry is
\* set to now + RETRY_DELAY * 2 ** retry_count, and the status becomes
\* "max_retries_reached" when retry_count >= max_retries.
UpdateItemStatus(items, item_id, status) ==
    IF \A i \in 1..Len(items) : items[i].id # item_id THEN items
    ELSE LET i == CHOOSE j \in 1..Len(items) :
                     /\ items[j].id = item_id
                     /\ \A k \in 1..(j - 1) : items[k].id # item_id
             count == items[i].retry_count + 1
         IN  IF status = "failed"
               THEN [items EXCEPT ![i] =
                        [items[i] EXCEPT
                            !.retry_count = count,
                            !.wait = RETRY_DELAY * 2^count,
                            !.status = IF count >= items[i].max_retries
                                         THEN "max_retries_reached" ELSE "failed"]]
               ELSE [items EXCEPT ![i] = [items[i] EXCEPT !.status = status]]

\* RetryQueue.clean_queue(): items older than 7 days go unless they are
\* pending.
CleanQueue(items) ==
    SelectSeq(items, LAMBDA item : ~item.old \/ item.status = "pending")

\* The status process_retry_queue gives an item it retried: "success" when
\* the retried call returned, "failed" when it raised or the type is unknown.
RetriedStatus(item, raising) ==
    IF item.type \in {"post", "email"} /\ item.id \notin raising
      THEN "success" ELSE "failed"

RECURSIVE RetryItemsFrom(_, _, _, _)
\* "for item in pending_items": the pending items from position i on are
\* retried and their status updated.
RetryItemsFrom(items, pending, i, raising) ==
    IF i > Len(items) THEN items
    ELSE IF i \notin pending THEN RetryItemsFrom(items, pending, i + 1, raising)
    ELSE RetryItemsFrom(
             UpdateItemStatus(items, items[i].id, RetriedStatus(items[i], raising)),
             pending, i + 1, raising)

\* The serial numbers of the items with a final status.
SettledIn(items) ==
    {items[i].id[2] : i \in {j \in 1..Len(items) :
                                items[j].status \in {"success", "max_retries_reached"}}}

OutsideRetryQueue ==
    /\ UNCHANGED <<retry, tagged, pub, sim, cc>>
    /\ OutsideTools

\* handle_error is called for a failed operation.
HandleErrorCall(retry_flag, retry_item) ==
    /\ rq.added < MaxItemsAdded
    /\ rq' = HandleError(rq, retry_flag, retry_item)
    /\ OutsideRetryQueue

\* process_retry_queue() with the retried calls of the items in raising
\* raising: without pending items it returns at once; else every pending item
\* is retried and the queue is cleaned.
ProcessRetryQueue(raising) ==
    /\ raising \subseteq {rq.items[i].id : i \in 1..Len(rq.items)}
    /\ rq' = IF GetPendingItems(rq.items) = {} THEN rq
             ELSE LET retried == RetryItemsFrom(rq.items, GetPendingItems(rq.items),
                                                1, raising)
                  IN  [rq EXCEPT !.items = CleanQueue(retried),
                                 !.settled = @ \cup SettledIn(retried)]
    /\ OutsideRetryQueue

\* d seconds pass.
SecondsPass(d) ==
    /\ \E i \in 1..Len(rq.items) : rq.items[i].wait > 0
    /\ rq' = [rq EXCEPT !.items =
                 [i \in 1..Len(rq.items) |->
                     [rq.items[i] EXCEPT !.wait = IF @ > d THEN @ - d ELSE 0]]]
    /\ OutsideRetryQueue

\* More than 7 days pass.
WeekPasses ==
    /\ \E i \in 1..Len(rq.items) : ~rq.items[i].old
    /\ rq' = [rq EXCEPT !.items =
                 [i \in 1..Len(rq.items) |->
                     [rq.items[i] EXCEPT !.wait = 0, !.old = TRUE]]]
    /\ OutsideRetryQueue

ProcessRuns == \E raising \in SUBSET (ItemTypes \X (1..MaxItemsAdded)) : ProcessRetryQueue(raising)
TimePasses == WeekPasses \/ \E d \in TickSeconds : SecondsPass(d)

RetryQueueStep ==
    \/ \E retry_flag \in BOOLEAN, retry_item \in RetryItems \cup {NoRetryItem} :
          HandleErrorCall(retry_flag, retry_item)
    \/ ProcessRuns
    \/ TimePasses

\* The item added by the n-th add_item has reached a final status.
ItemSettled(n) == n \in rq.settled

\* C34: every item added to the retry queue eventually reaches status
\* success or max_retries_reached under repeated process_retry_queue runs (a
\* failed item is retried again once its next_retry time has passed), and
\* its retry_count never exceeds its max_retries.
C34_EveryItemSettles ==
    /\ [](\A i \in 1..Len(rq.items) :
             rq.items[i].retry_count <= rq.items[i].max_retries)
    /\ \A n \in 1..MaxItemsAdded : (rq.added >= n) ~> ItemSettled(n)

\* The counters stay within their bounds, and an item that is not pending is
\* never pending again.
RetryCountBounded ==
    \A i \in 1..Len(rq.items) :
       /\ rq.items[i].retry_count <= rq.items[i].max_retries
       /\ rq.items[i].status = "failed" =>
             /\ rq.items[i].retry_count = 1
             /\ rq.items[i].max_retries > 1
       /\ rq.items[i].status = "pending" => rq.items[i].retry_count = 0
FailedStaysFailed ==
    [][\A i \in 1..Len(rq.items) :
          rq.items[i].status = "failed" =>
             /\ \A j \in 1..Len(rq'.items) :
                   rq'.items[j].id = rq.items[i].id =>
                      rq'.items[j].status = "failed"
             /\ i \notin GetPendingItems(rq.items)
             /\ rq.items[i].id[2] \notin rq'.settled]_vars

\* An item whose retry failed once is due again and is not among the items
\* get_pending_items returns.
FailedItemStuck ==
    \E i \in 1..Len(rq.items) :
       /\ rq.items[i].status = "failed"
       /\ rq.items[i].wait = 0
       /\ rq.items[i].retry_count < rq.items[i].max_retries
       /\ i \notin GetPendingItems(rq.items)

(***************************************************************************)
(* Two processes in scheduler.update_next_post_time(), or in               *)
(* content_strategy.get_next_niche_round_robin(), at the same time.  The   *)
(* steps are the file operations: a call reads the file, opens it for      *)
(* writing (which truncates it) and writes it when the file is closed.     *)
(***************************************************************************)

\* op: which function the two processes call; torn: the file is open for
\* writing and still empty; state0: agent/state.json before the calls.
CcIdle == [op |-> "none", pc |-> [p \in Procs |-> "idle"],
           prev |-> [p \in Procs |-> NoNextTime], idx |-> [p \in Procs |-> -1],
           ret |-> [p \in Procs |-> "none"], next |-> [p \in Procs |-> NoNextTime],
           torn |-> FALSE, state0 |-> NoNextTime]

OutsideConcurrent ==
    /\ UNCHANGED <<retry, tagged, pub, sim, rq>>
    /\ UNCHANGED <<lockVars, postVars, queueVars, backlogVars, historyVars, dedupVars,
                   runVars>>
    /\ UNCHANGED <<wall_clock, cfg, sched>>
    /\ UNCHANGED <<niches, topic_history, today, tpc, strategy, picked, cursor0,
                   runs, recorded, saves>>

\* scheduler.py:52-56: the configuration and the state are loaded. json.load
\* raises on the empty file another process has just opened for writing, and
\* "base < now" raises TypeError on an aware previous value: the call ends
\* with the exception.
LoadState(p) ==
    /\ cc.op = "schedule" /\ cc.pc[p] = "idle"
    /\ cc' = IF cc.torn \/ (state_json.set /\ state_json.aware)
               THEN [cc EXCEPT !.pc[p] = "raised"]
               ELSE [cc EXCEPT !.pc[p] = "loaded", !.prev[p] = state_json]
    /\ UNCHANGED <<state_json, niche_index>>
    /\ OutsideConcurrent

\* scheduler.py:21: open(STATE_PATH, "w") in _save_state. The next time was
\* computed from what the call read.
OpenState(p) ==
    /\ cc.op = "schedule" /\ cc.pc[p] = "loaded"
    /\ cc' = [cc EXCEPT !.pc[p] = "opened", !.torn = TRUE,
                        !.next[p] = NextTime(SchedulerNextTime(cc.prev[p], wall_clock,
                                                               cfg), FALSE)]
    /\ UNCHANGED <<state_json, niche_index>>
    /\ OutsideConcurrent

\* scheduler.py:22-23 and 74-76: the state is written as the file is closed,
\* and its next_post_time returned.
WriteState(p) ==
    /\ cc.op = "schedule" /\ cc.pc[p] = "opened"
    /\ state_json' = cc.next[p]
    /\ cc' = [cc EXCEPT !.pc[p] = "done", !.torn = FALSE]
    /\ UNCHANGED niche_index
    /\ OutsideConcurrent

\* content_strategy.py:32-41: the index is read; a missing file and a file
\* json.load cannot parse (the exception is caught) both give -1.
LoadIndex(p) ==
    /\ cc.op = "niche" /\ cc.pc[p] = "idle"
    /\ cc' = [cc EXCEPT !.pc[p] = "loaded",
                        !.idx[p] = IF cc.torn THEN -1 ELSE niche_index]
    /\ UNCHANGED <<state_json, niche_index>>
    /\ OutsideConcurrent

\* content_strategy.py:43-46: "idx = (idx + 1) % len(niches)" and
\* open(NICHE_INDEX_PATH, "w").
OpenIndex(p) ==
    /\ cc.op = "niche" /\ cc.pc[p] = "loaded"
    /\ cc' = [cc EXCEPT !.pc[p] = "opened", !.torn = TRUE,
                        !.idx[p] = NextNicheIndex(cc.idx[p], Len(niches))]
    /\ UNCHANGED <<state_json, niche_index>>
    /\ OutsideConcurrent

\* content_strategy.py:47-54: the index is written as the file is closed, and
\* niches[idx] returned.
WriteIndex(p) ==
    /\ cc.op = "niche" /\ cc.pc[p] = "opened"
    /\ niche_index' = cc.idx[p]
    /\ cc' = [cc EXCEPT !.pc[p] = "done", !.torn = FALSE,
                        !.ret[p] = niches[cc.idx[p] + 1]]
    /\ UNCHANGED state_json
    /\ OutsideConcurrent

ConcurrentStep ==
    \E p \in Procs :
       \/ LoadState(p)
       \/ OpenState(p)
       \/ WriteState(p)
       \/ LoadIndex(p)
       \/ OpenIndex(p)
       \/ WriteIndex(p)

\* Both calls have ended.
BothEnded == \A p \in Procs : cc.pc[p] \in {"done", "raised"}

\* agent/state.json after two update_next_post_time calls one after the other
\* (the order makes no difference: they are the same call).
AfterTwoUpdates(state) ==
    IF state.set /\ state.aware THEN state
    ELSE NextTime(SchedulerNextTime(
                      NextTime(SchedulerNextTime(state, wall_clock, cfg), FALSE),
                      wall_clock, cfg), FALSE)

\* C37: updates of the persisted scheduler and cursor state are not lost
\* between processes: two concurrent update_next_post_time calls leave the
\* next post time two calls one after the other would leave, and two
\* concurrent round-robin selections return two different niches and advance
\* the cursor by two.
C37_NoLostUpdate ==
    BothEnded =>
        /\ cc.op = "schedule" => state_json = AfterTwoUpdates(cc.state0)
        /\ cc.op = "niche" =>
              /\ niche_index = NextNicheIndex(NextNicheIndex(cursor0, Len(niches)),
                                              Len(niches))
              /\ Len(niches) >= 2 => cc.ret["A"] # cc.ret["B"]

\* An update that read what the other one wrote loses nothing: the file
\* holds the time two calls one after the other give.
UpdateAfterUpdateKept ==
    (cc.op = "schedule" /\ \A p \in Procs : cc.pc[p] = "done"
       /\ \E first, second \in Procs : cc.prev[second] = cc.next[first]) =>
        state_json = AfterTwoUpdates(cc.state0)

\* Both processes read the next post time before either wrote: the file holds
\* the time one call gives, the other update is lost.
ScheduleUpdateLost ==
    /\ cc.op = "schedule" /\ \A p \in Procs : cc.pc[p] = "done"
    /\ cc.prev["A"] = cc.prev["B"]
    /\ state_json = NextTime(SchedulerNextTime(cc.state0, wall_clock, cfg), FALSE)
    /\ state_json # AfterTwoUpdates(cc.state0)

\* Both selections returned the same niche and the cursor moved on by one.
SameNicheTwice ==
    /\ cc.op = "niche" /\ \A p \in Procs : cc.pc[p] = "done"
    /\ Len(niches) >= 2
    /\ cc.ret["A"] = cc.ret["B"]
    /\ niche_index = NextNicheIndex(cursor0, Len(niches))

(***************************************************************************)
(* agent/__init__.py: ensure_hashtags_in_content(content, hashtags)        *)
(*                                                                         *)
(* A text is the sequence of its characters, so that "tag in content" is   *)
(* Python's substring test and the appended line is a concatenation.       *)
(***************************************************************************)
MaxContentLen == 3
MaxHashtags == 2
ContentChars == {"#", "a", "b"}

SeqsUpTo(S, n) == UNION {[1..k -> S] : k \in 0..n}

Contents == SeqsUpTo(ContentChars, MaxContentLen)
Tags == {<<>>, <<"#", "a">>, <<"#", "b">>, <<"#", "a", "b">>}
HashtagLists == SeqsUpTo(Tags, MaxHashtags)

\* "tag in content" for two str.
In(tag, content) ==
    \E i \in 0..(Len(content) - Len(tag)) : SubSeq(content, i + 1, i + Len(tag)) = tag

\* " ".join(hashtags)
RECURSIVE Join(_)
Join(hashtags) ==
    IF hashtags = <<>> THEN <<>>
    ELSE IF Len(hashtags) = 1 THEN hashtags[1]
    ELSE hashtags[1] \o <<" ">> \o Join(Tail(hashtags))

\* Mutant: the content counts as tagged only when every hashtag is in it.
HasHashtags_All(content, hashtags) ==
    \A i \in DOMAIN hashtags : In(hashtags[i], content)

\* has_hashtags = any(tag in content for tag in hashtags)
HasHashtags(content, hashtags) ==
    \E i \in DOMAIN hashtags : In(hashtags[i], content)

\* f"{content}\n\n{hashtag_line}"
EnsureHashtagsInContent(content, hashtags) ==
    IF hashtags = <<>> THEN content
    ELSE IF HasHashtags(content, hashtags) THEN content
    ELSE content \o <<"\n", "\n">> \o Join(hashtags)

NoTagging == [content |-> <<>>, hashtags |-> <<>>, results |-> <<>>]

OutsideTagging ==
    /\ UNCHANGED <<retry, pub, sim, rq, cc>>
    /\ OutsideTools

\* The function is called on a content and a list of hashtags.
EnsureCall(content, hashtags) ==
    /\ tagged = NoTagging
    /\ tagged' = [content |-> content, hashtags |-> hashtags,
                  results |-> <<EnsureHashtagsInContent(content, hashtags)>>]
    /\ OutsideTagging

\* The function is called again on what it returned, with the same hashtags.
EnsureAgain ==
    /\ tagged.results # <<>>
    /\ Len(tagged.results) < 2
    /\ tagged' = [tagged EXCEPT !.results =
                      Append(@, EnsureHashtagsInContent(@[Len(@)], tagged.hashtags))]
    /\ OutsideTagging

HashtagStep ==
    \/ \E content \in Contents, hashtags \in HashtagLists : EnsureCall(content, hashtags)
    \/ EnsureAgain

(***************************************************************************)
(* run.py: LinkedInAgent.__init__, run() and _publish_to_linkedin          *)
(***************************************************************************)

\* What ENABLE_POST can hold in the environment; "unset" stands for no variable.
EnvValues == {"unset", "true", "TRUE", "false", ""}

\* os.getenv("ENABLE_POST", "true")
GetEnv(env, default) == IF env = "unset" THEN default ELSE env

\* str.lower() on these values.
Lower(v) == IF v = "TRUE" THEN "true" ELSE v

\* self.enable_post = not self.dry_run and
\*     os.getenv("ENABLE_POST", "true").lower() == "true"
EnablePost(dry_run, env) == ~dry_run /\ Lower(GetEnv(env, "true")) = "true"

\* The posts _generate_and_validate_post hands to run(): a body and its
\* hashtags; NoDraft stands for None.
NoDraft == [body |-> <<>>, hashtags |-> <<"none">>]
Drafts ==
    {[body |-> <<"a", "b">>, hashtags |-> << <<"#", "a">>, <<"#", "b">> >>],
     [body |-> <<"a", "#", "a">>, hashtags |-> << <<"#", "a">> >>],
     [body |-> <<"b">>, hashtags |-> <<>>]}

\* The persisted next post times a run may find.
PublishTimes == {StartSlot, SlotsPerDay + StartSlot}

PubIdle == [pc |-> "new", dry_run |-> FALSE, force_post |-> FALSE, env |-> "unset",
            enable_post |-> FALSE, posted |-> FALSE, post |-> NoDraft,
            published |-> <<>>, update_called |-> FALSE,
            state_before |-> NoNextTime, raised |-> FALSE]

ToolIdleInit ==
    /\ retry = RetryIdle /\ tagged = NoTagging /\ pub = PubIdle
    /\ sim = NoSimilarityCall /\ rq = RqIdle /\ cc = CcIdle

OutsidePublish ==
    /\ UNCHANGED <<retry, tagged, sim, cc>>
    /\ UNCHANGED <<lockVars, postVars, queueVars, backlogVars, historyVars, dedupVars,
                   runVars, topicVars>>

\* LinkedInAgent(dry_run, force_post) with ENABLE_POST = env.
AgentInit(dry_run, force_post, env) ==
    /\ pub.pc = "new"
    /\ pub' = [PubIdle EXCEPT !.pc = "check", !.dry_run = dry_run,
                              !.force_post = force_post, !.env = env,
                              !.enable_post = EnablePost(dry_run, env)]
    /\ UNCHANGED <<schedVars, rq>>
    /\ OutsidePublish

\* run.py:128-135 and 527-530: "should_post = self.force_post or
\* should_post_now()"; outside the posting window run() returns False.
CheckPostingSchedule ==
    /\ pub.pc = "check"
    /\ pub' = [pub EXCEPT !.pc =
                  IF pub.force_post \/ SchedulerShouldPostNow(FALSE, state_json, wall_clock)
                    THEN "generate" ELSE "outside_window"]
    /\ UNCHANGED <<schedVars, rq>>
    /\ OutsidePublish

\* run.py:537-546: the generation gives a post, or fails and run() returns
\* False; the post goes to the backlog, which no later step reads.
GeneratePostForRun(post) ==
    /\ pub.pc = "generate"
    /\ pub' = IF post = NoDraft THEN [pub EXCEPT !.pc = "content_error"]
              ELSE [pub EXCEPT !.pc = "publish", !.post = post]
    /\ UNCHANGED <<schedVars, rq>>
    /\ OutsidePublish

\* Mutant: the post counts as posted whether or not the publisher raised.
PostedAfterPublish_Always(posted, raises) == TRUE

\* self.posted after _publish_to_linkedin: "self.posted = True" is reached
\* unless post_to_linkedin raised (run.py:470-480).
PostedAfterPublish(posted, raises) == IF raises THEN posted ELSE TRUE

\* _publish_to_linkedin(post["body"], post): the hashtags are appended to the
\* content; with enable_post the content is passed to post_to_linkedin, and
\* when that raises, the decorator calls handle_error(retry=True), logs the
\* error and returns None, leaving self.posted as it was; otherwise, and in
\* draft mode, self.posted = True.
PublishToLinkedinCall(raises) ==
    /\ pub.pc = "publish"
    /\ raises => pub.enable_post
    /\ LET post_content ==
               IF pub.post.hashtags # <<>>
                 THEN EnsureHashtagsInContent(pub.post.body, pub.post.hashtags)
                 ELSE pub.post.body
       IN pub' = [pub EXCEPT
                     !.published = IF pub.enable_post THEN Append(@, post_content) ELSE @,
                     !.posted = PostedAfterPublish(@, raises),
                     !.raised = raises,
                     !.pc = "report"]
    /\ rq' = IF raises THEN HandledOperation(rq, TRUE) ELSE rq
    /\ UNCHANGED schedVars
    /\ OutsidePublish

\* run.py:551-562: the report is sent; "if self.posted:
\* self._update_next_post_schedule()", which calls scheduler.py's
\* update_next_post_time(). That raises TypeError on an aware persisted
\* value; the decorator logs it and the state file keeps its value.
UpdateNextPostSchedule ==
    /\ pub.pc = "report"
    /\ pub' = [pub EXCEPT !.pc = "done", !.update_called = pub.posted,
                          !.state_before = state_json]
    /\ IF pub.posted /\ ~(state_json.set /\ state_json.aware)
         THEN /\ state_json' = NextTime(SchedulerNextTime(state_json, wall_clock, cfg),
                                        FALSE)
              /\ sched' = [op |-> "update_next_post_time", module |-> "scheduler",
                           force |-> FALSE, prev |-> state_json, ok |-> TRUE,
                           result |-> FALSE, returned |-> state_json']
         ELSE /\ UNCHANGED state_json
              /\ sched' = IF pub.posted
                            THEN [op |-> "update_next_post_time", module |-> "scheduler",
                                  force |-> FALSE, prev |-> state_json, ok |-> FALSE,
                                  result |-> FALSE, returned |-> NoNextTime]
                            ELSE sched
    /\ UNCHANGED <<wall_clock, cfg, rq>>
    /\ OutsidePublish

PublishStep ==
    \/ \E dry_run \in BOOLEAN, force_post \in BOOLEAN, env \in EnvValues :
          AgentInit(dry_run, force_post, env)
    \/ CheckPostingSchedule
    \/ \E post \in Drafts \cup {NoDraft} : GeneratePostForRun(post)
    \/ \E raises \in BOOLEAN : PublishToLinkedinCall(raises)
    \/ UpdateNextPostSchedule

\* The agent runs in draft mode: --dry-run, or ENABLE_POST set to something
\* other than "true" in any case.
DraftMode == pub.pc # "new" /\ (pub.dry_run \/ pub.env \in {"false", ""})

\* The run has been through _publish_to_linkedin.
PastPublishing == pub.pc \in {"report", "done"}

\* In draft mode post_to_linkedin is never called, and a run that reached the
\* publishing step counts the post as posted and calls the schedule update.
DraftNeverPublishes ==
    DraftMode =>
        /\ pub.published = <<>>
        /\ PastPublishing => pub.posted
        /\ pub.pc = "done" => pub.update_called

\* The schedule moved on: a next post time is persisted that is later than
\* the one the run found.
ScheduleAdvanced ==
    /\ state_json.set
    /\ pub.state_before.set => state_json.t > pub.state_before.t

\* C30: in dry-run mode, or with ENABLE_POST not true, post_to_linkedin is
\* never called in any run, while a run that gets to publishing still counts
\* the post as posted and advances the schedule.
C30_DraftRunSkipsPublisher ==
    DraftMode =>
        /\ pub.published = <<>>
        /\ PastPublishing => pub.posted
        /\ pub.pc = "done" => ScheduleAdvanced

\* A draft run that ended with the post counted as posted and the schedule
\* moved on.
DraftRunAdvanced ==
    /\ DraftMode /\ pub.dry_run /\ pub.pc = "done"
    /\ pub.published = <<>> /\ pub.posted
    /\ pub.state_before.set /\ ScheduleAdvanced

\* A live run that called the publisher with the hashtags appended.
LiveRunPublished ==
    /\ ~DraftMode /\ pub.pc = "done"
    /\ pub.published = << <<"a", "b", "\n", "\n", "#", "a", " ", "#", "b">> >>

\* The step calls update_next_post_time or changes the persisted state.
ScheduleTouched ==
    \/ state_json' # state_json
    \/ sched' # sched
    \/ pub'.update_called # pub.update_called

\* C32: in LinkedInAgent.run the schedule is advanced at most once per run and
\* only after the publish step of the same run succeeded or prepared a draft:
\* when the gate refuses, when generation fails or when publishing raises,
\* update_next_post_time is not called and the persisted next post time stays
\* as it was.
C32_ScheduleAdvancedOnlyAfterPublish ==
    [][ScheduleTouched =>
          /\ pub.pc = "report" /\ pub'.pc = "done"
          /\ pub.posted /\ ~pub.raised
          /\ ~pub.update_called
          /\ pub'.update_called
          /\ sched'.op = "update_next_post_time"]_vars

\* C32 witness: a live run whose publishing raised has ended: the publisher
\* was called, the post does not count as posted, update_next_post_time was
\* not called.
C32_Witness ==
    /\ pub.pc = "done" /\ pub.raised
    /\ pub.published # <<>>
    /\ ~pub.posted /\ ~pub.update_called
    /\ sched = NoSchedCall
    /\ state_json.set

\* Some item of the retry queue is pending.
PendingItemPresent ==
    \E i \in 1..Len(rq.items) : rq.items[i].status = "pending"

\* C33: handle_error called with retry=True adds the failed operation to the
\* retry queue: after a publish step that raised, a pending item is in the
\* queue for a later process_retry_queue.
C33_FailedPublishQueued == pub.raised => PendingItemPresent

\* A run whose publish step raised has ended and the retry queue is empty.
FailedPublishNotQueued ==
    /\ pub.pc = "done" /\ pub.raised
    /\ rq.items = <<>>

\* The runs that end before publishing leave the schedule alone too.
EarlyExitKeepsSchedule ==
    pub.pc \in {"outside_window", "content_error"} =>
        /\ ~pub.update_called
        /\ sched = NoSchedCall

\* A text starts with another.
StartsWith(text, prefix) ==
    Len(prefix) <= Len(text) /\ SubSeq(text, 1, Len(prefix)) = prefix

\* Some listed hashtag occurs in the text.
Occurs(hashtags, text) ==
    \E i \in DOMAIN hashtags :
       \E j \in 1..(Len(text) + 1) :
          /\ j + Len(hashtags[i]) - 1 <= Len(text)
          /\ \A k \in 1..Len(hashtags[i]) : text[j + k - 1] = hashtags[i][k]

\* C28: ensure_hashtags_in_content keeps the content as a prefix of its
\* result; with an empty hashtag list, or when a listed hashtag already occurs
\* in the content, it returns the content unchanged; otherwise it returns the
\* content, a blank line and the hashtags joined by spaces; and applied again
\* to its result it returns the result unchanged.
C28_EnsureHashtagsIdempotent ==
    tagged.results # <<>> =>
        LET content == tagged.content
            hashtags == tagged.hashtags
            once == tagged.results[1]
        IN  /\ StartsWith(once, content)
            /\ (hashtags = <<>> \/ Occurs(hashtags, content)) => once = content
            /\ ~(hashtags = <<>> \/ Occurs(hashtags, content)) =>
                  /\ once = content \o <<"\n", "\n">> \o Join(hashtags)
                  /\ Len(once) > Len(content)
            /\ Len(tagged.results) = 2 => tagged.results[2] = once

\* C28 witness: two hashtags, none of them in the content, were appended by
\* the first application, and the second application returned the same text.
C28_Witness ==
    /\ Len(tagged.results) = 2
    /\ Len(tagged.hashtags) = 2
    /\ tagged.content # <<>>
    /\ ~Occurs(tagged.hashtags, tagged.content)
    /\ tagged.results[1] # tagged.content
    /\ tagged.results[2] = tagged.results[1]

\* A hashtag that is part of a longer word of the content counts as present:
\* the content "#ab" is returned unchanged for the hashtag "#a".
PartOfLongerWordCounts ==
    /\ tagged.results # <<>>
    /\ tagged.content = <<"#", "a", "b">>
    /\ tagged.hashtags = << <<"#", "a">> >>
    /\ tagged.results[1] = tagged.content

\* A selection that returns a trending topic is possible from this state.
TrendingSelectable ==
    ENABLED (\E feeds \in Feeds :
                GetNextContentStrategy(feeds) /\ strategy'.source = "trending")

\* Queue head first, and the fixed topic only when nothing else gave one.
QueueHeadAndFallbackLast ==
    tpc = "selected" =>
        /\ strategy.source \in Sources /\ strategy.topic # "none"
        /\ pending_repos # <<>> =>
              strategy.source = "repo" /\ strategy.topic = pending_repos[1]
        /\ strategy.source = "fallback" =>
              /\ pending_repos = <<>> /\ niches = <<>>
              /\ ~strategy.feeds.calendar /\ ~strategy.feeds.trending

\* C21: topic selection follows the order queue item > trending topic >
\* round-robin niche > fixed fallback: with a pending queue its head is
\* selected, a trending topic can be selected even when niches are
\* configured, the fixed topic is returned only when no other source gives
\* one, and a selection always returns some topic.
C21_SelectionPriorityOrder ==
    /\ QueueHeadAndFallbackLast
    /\ (tpc = "idle" /\ runs < MaxRuns /\ pending_repos = <<>> /\ niches # <<>>) =>
          TrendingSelectable

\* How often entry e occurs in the list s.
Count(s, e) == Cardinality({i \in 1..Len(s) : s[i] = e})

\* result holds the min(limit, all) newest entries of store, newest first.
NewestFirst(store, limit, result) ==
    /\ Len(result) <= limit
    /\ Len(result) = Min(limit, Len(store))
    /\ \A k \in 1..(Len(result) - 1) : result[k].timestamp >= result[k + 1].timestamp
    /\ \A k \in 1..Len(result) : Count(result, result[k]) <= Count(store, result[k])
    /\ \A i \in 1..Len(store) :
          Count(result, store[i]) < Count(store, store[i]) =>
              \A k \in 1..Len(result) : store[i].timestamp <= result[k].timestamp

\* C22: after any sequence of saves, get_recent_posts(limit) and
\* load_recent_posts() (limit 30) return at most limit posts; they are the
\* most recently created posts of the store, newest first.
C22_RecentPostsNewestFirstCapped ==
    last_read.op # "none" =>
        NewestFirst(last_read.store, last_read.limit, last_read.result)

\* C22 witness: load_recent_posts() read a file of 31 posts and returned 30
\* of them, the last one saved first and the oldest one left out.
C22_Witness ==
    /\ last_read.op = "load_recent_posts"
    /\ Len(last_read.store) > MAX_HISTORY_SIZE
    /\ Len(last_read.result) = MAX_HISTORY_SIZE
    /\ last_read.result[1].timestamp = saved[Len(saved)].timestamp
    /\ Count(last_read.result, last_read.store[1]) = 0

\* The same on table posts: get_recent_posts(1) returned the newer of two rows.
TableReadCapped ==
    /\ last_read.op = "get_recent_posts"
    /\ last_read.limit = 1
    /\ Len(last_read.store) = 2
    /\ Len(last_read.result) = 1
    /\ last_read.result[1] = last_read.store[2]
    /\ last_read.store[1].timestamp < last_read.store[2].timestamp

\* The posts saved before the last read, and those of them in its window:
\* fewer than MAX_HISTORY_SIZE posts were saved after them and before the read.
SavedBeforeRead == {i \in 1..Len(saved) : saved[i].timestamp < last_read.at}
InsideWindow(i) ==
    Cardinality({j \in SavedBeforeRead : saved[j].timestamp > saved[i].timestamp})
        < MAX_HISTORY_SIZE
ReturnedAsStored(i) ==
    \E k \in 1..Len(last_read.result) :
        /\ last_read.result[k].title = saved[i].title
        /\ last_read.result[k].body = saved[i].body
        /\ last_read.result[k].hash = saved[i].hash
        /\ last_read.result[k].timestamp = saved[i].timestamp

NoSimilarity == CheckedRecent = <<>> \/ Tokens(dcheck.body) = <<>>

\* C24: with an empty history window, or a candidate that is empty or made
\* of stop words only, calculate_similarity returns similarity 0 and no post,
\* is_duplicate returns (False, None), and no exception reaches the caller.
C24_NoSimilarityNotDuplicate ==
    (dcheck.called /\ NoSimilarity) =>
        /\ ~dcheck.raised
        /\ ~CalculateSimilarityRaises(dcheck.body, CheckedRecent)
        /\ CalculateSimilarity(dcheck.body, CheckedRecent).max_similarity.dot = 0
        /\ CalculateSimilarity(dcheck.body, CheckedRecent).most_similar_post = NoEntry
        /\ dcheck.result = [is_dup |-> FALSE, similar_post |-> NoEntry]

\* C24 witness: an empty candidate against a window whose posts have no term
\* either, so that fit_transform raised; the call returned (False, None).
C24_Witness ==
    /\ dcheck.called
    /\ dcheck.body = B0
    /\ CheckedRecent # <<>>
    /\ FitTransformRaises(CheckedDocs)
    /\ ~dcheck.raised
    /\ dcheck.result = [is_dup |-> FALSE, similar_post |-> NoEntry]

\* The other cases of C24: an empty window, and a candidate of stop words
\* against posts that have terms (a zero vector, no exception).
EmptyWindowChecked == dcheck.called /\ CheckedRecent = <<>> /\ dcheck.body = B1
StopWordCandidateChecked ==
    /\ dcheck.called /\ dcheck.body = B6
    /\ \E d \in 1..Len(CheckedRecent) : Tokens(CheckedRecent[d].body) # <<>>
    /\ ~FitTransformRaises(CheckedDocs)

\* The window entries whose cosine with the candidate is the largest.
TiedAtMaximum ==
    {d \in 1..Len(CheckedRecent) :
        \A e \in 1..Len(CheckedRecent) : ~CosineLess(CheckedCosine(d), CheckedCosine(e))}
SomeSimilarity ==
    /\ CheckedRecent # <<>>
    /\ ~FitTransformRaises(CheckedDocs)
    /\ \E d \in 1..Len(CheckedRecent) : CheckedCosine(d).dot > 0

\* C25: when several posts of the window tie at the largest similarity, the
\* post reported as most similar is the one with the lowest index in the
\* window, which is the most recently saved of the tied posts.
C25_TieGoesToNewest ==
    (dcheck.called /\ SomeSimilarity) =>
        LET reported == CalculateSimilarity(dcheck.body, CheckedRecent).most_similar_post
            first == CHOOSE d \in TiedAtMaximum : \A e \in TiedAtMaximum : d <= e
        IN /\ reported = CheckedRecent[first]
           /\ \A e \in TiedAtMaximum : reported.timestamp >= CheckedRecent[e].timestamp
           /\ dcheck.result.is_dup => dcheck.result.similar_post = reported

\* C25 witness: two saved posts tie at the largest similarity, above the
\* threshold, and the newer one was reported.
C25_Witness ==
    /\ dcheck.called
    /\ SomeSimilarity
    /\ Cardinality(TiedAtMaximum) = 2
    /\ dcheck.result.is_dup
    /\ dcheck.result.similar_post = CheckedRecent[1]
    /\ CheckedRecent[1].timestamp > CheckedRecent[2].timestamp
    /\ CheckedRecent[1].body # CheckedRecent[2].body

\* What retry_with_backoff does: at most max_retries + 1 calls, the result
\* of the first call that returns, the last exception after the last call,
\* and a wait of RETRY_DELAY * 2^(k - 1) seconds after the k-th failure.
RetryBoundedDoubling ==
    /\ retry.calls <= retry.max_retries + 1
    /\ retry.pc = "returned" =>
          retry.result = retry.calls /\ Len(retry.errors) = retry.calls - 1
    /\ retry.pc = "raised" =>
          /\ retry.calls = retry.max_retries + 1
          /\ Len(retry.errors) = retry.calls
          /\ retry.raised = retry.errors[Len(retry.errors)]
    /\ \A k \in 1..Len(retry.slept) : retry.slept[k] = BackoffDelay(k)

\* After a failure the wait can differ from RETRY_DELAY * 2^attempt: there is
\* jitter.
JitterPossible ==
    ENABLED (\E e \in Exceptions :
                FuncRaises(e) /\ retry'.delay # BackoffDelay(retry'.retries))

\* C26: retry_with_backoff calls the function at most max_retries + 1 times,
\* returns the result of the first successful call without further calls,
\* re-raises the last error once the bound is reached, and between attempts
\* waits base * 2^attempt plus a random jitter, the wait being capped.
C26_RetryBoundedWithJitter ==
    /\ retry.calls <= retry.max_retries + 1
    /\ retry.pc = "returned" =>
          retry.result = retry.calls /\ Len(retry.errors) = retry.calls - 1
    /\ retry.pc = "raised" =>
          /\ retry.calls = retry.max_retries + 1
          /\ retry.raised = retry.errors[Len(retry.errors)]
    /\ \A k \in 1..Len(retry.slept) : retry.slept[k] >= BackoffDelay(k)
    /\ (retry.pc = "calling" /\ retry.retries < retry.max_retries) => JitterPossible

(***************************************************************************)
(* Specifications                                                          *)
(***************************************************************************)

QueueBacklogInit == pending_repos = <<>> /\ used_list = <<>>

\* The database after init_db(), with an empty repo_queue.json.
StorageInit ==
    LockInit /\ PostsInit /\ QueueInit /\ QueueBacklogInit /\ HistoryIdleInit /\ RunInit /\ ToolIdleInit
    /\ generator = "any" /\ SchedIdleInit /\ TopicIdleInit

\* The database after init_db(), with any of the initial repo_queue.json lists.
SeqQueueInit ==
    LockInit /\ PostsInit /\ QueueInit /\ BacklogInit /\ HistoryIdleInit /\ RunInit /\ ToolIdleInit
    /\ generator = "any" /\ SchedIdleInit /\ TopicIdleInit

SpecLock == StorageInit /\ [][LockStep]_vars

SpecPosts == StorageInit /\ [][PostsStep]_vars

SpecQueue == StorageInit /\ [][QueueStep]_vars

SpecSeqQueue == SeqQueueInit /\ [][SeqQueueStep]_vars

\* One run of the agent on the database after init_db(), with any of the
\* initial history files and repo queues.
RunStartInit ==
    /\ LockInit /\ PostsInit /\ QueueInit
    /\ pending_repos \in InitialRunQueues /\ used_list = <<>>
    /\ HistoryInit /\ DedupIdle /\ RunInit /\ ToolIdleInit /\ SchedIdleInit /\ TopicIdleInit
    /\ generator \in GeneratorBehaviours
    /\ generator = "duplicating" => used_posts # <<>>

SpecRun == RunStartInit /\ [][RunStep]_vars

\* The run is one Python call: it goes on as long as it has a step to take.
FairSpecRun == SpecRun /\ WF_vars(RunStep)
\* An empty used_posts.jsonl, before any save_post or is_duplicate.
DedupInit ==
    LockInit /\ PostsInit /\ QueueInit /\ QueueBacklogInit /\ HistoryIdleInit /\ RunInit /\ ToolIdleInit
    /\ generator = "any" /\ SchedIdleInit /\ TopicIdleInit

SpecDedup == DedupInit /\ [][DedupStep]_vars

\* agent/state.json as an earlier run left it (absent, or any next_post_time
\* written by either module), under any posting configuration.
ScheduleInit ==
    /\ LockInit /\ PostsInit /\ QueueInit /\ QueueBacklogInit /\ HistoryIdleInit
    /\ RunInit /\ ToolIdleInit /\ generator = "any" /\ TopicIdleInit
    /\ state_json \in {NoNextTime}
                      \cup {NextTime(t, aware) : t \in 0..MaxSlot, aware \in BOOLEAN}
    /\ wall_clock \in InitialClocks
    /\ cfg \in Configs
    /\ sched = NoSchedCall

\* run.py's scheduler alone.
SchedulerInit == ScheduleInit /\ ~state_json.aware
SpecScheduler == SchedulerInit /\ [][SchedulerStep]_vars

\* Both modules on the one state file.
SpecSchedule == ScheduleInit /\ [][SchedulerStep \/ WhenGateStep]_vars

\* Topic histories an earlier process left: the niches of S recorded on day 0.
RecordedOnDayZero(S) ==
    LET InS(x) == x \in S
        chosen == SelectSeq(NicheList, InS)
    IN [i \in 1..Len(chosen) |-> [topic |-> chosen[i], timestamp |-> 0]]

\* Before a run: any niche configuration and cursor, a repo pending or none,
\* some niches recorded on day 0.
TopicRunInit ==
    /\ LockInit /\ PostsInit /\ QueueInit /\ HistoryIdleInit /\ RunInit /\ ToolIdleInit
    /\ generator = "any" /\ SchedIdleInit
    /\ pending_repos \in {<<>>, <<"repoA">>} /\ used_list = <<>>
    /\ niches \in NicheConfigs
    /\ niche_index \in -1..(Len(NicheList) - 1)
    /\ cursor0 = niche_index
    /\ topic_history \in {RecordedOnDayZero(S) : S \in SUBSET Topics}
    /\ today \in {1, DEFAULT_COOLDOWN_DAYS}
    /\ tpc = "idle"
    /\ strategy = NoStrategy
    /\ picked = <<>>
    /\ runs = 0
    /\ recorded = [x \in Topics |-> NeverRecorded]
    /\ saves = 0

SpecTopicRun == TopicRunInit /\ [][TopicRunStep]_vars

\* A topic history that is empty, or full: nicheA recorded on day 0 and then
\* nicheB 99 times.
CooldownInit ==
    /\ LockInit /\ PostsInit /\ QueueInit /\ QueueBacklogInit /\ HistoryIdleInit
    /\ RunInit /\ ToolIdleInit /\ generator = "any" /\ SchedIdleInit
    /\ niches = NicheList /\ niche_index = -1 /\ cursor0 = -1
    /\ today = 0 /\ tpc = "idle" /\ strategy = NoStrategy /\ picked = <<>>
    /\ runs = 0 /\ saves = 0
    /\ \/ /\ topic_history = <<>>
          /\ recorded = [x \in Topics |-> NeverRecorded]
       \/ /\ topic_history =
                [i \in 1..TOPIC_HISTORY_LIMIT |->
                    [topic |-> IF i = 1 THEN "nicheA" ELSE "nicheB", timestamp |-> 0]]
          /\ recorded = [x \in Topics |->
                           IF x = "nicheA"
                             THEN [t |-> 0, since |-> TOPIC_HISTORY_LIMIT - 1]
                           ELSE IF x = "nicheB" THEN [t |-> 0, since |-> 0]
                           ELSE NeverRecorded]

SpecCooldown == CooldownInit /\ [][CooldownStep]_vars

\* A history file that is empty or one short of the window, an empty table
\* posts, and a process that has read nothing yet.
RecentInit ==
    /\ LockInit /\ PostsInit /\ QueueInit /\ QueueBacklogInit
    /\ used_posts \in {<<>>, WrittenFile(MAX_HISTORY_SIZE - 1)}
    /\ now = Len(used_posts) + 1
    /\ dcheck = NoCheck /\ last_read = NoRead /\ restarts = 0
    /\ saved = [i \in 1..Len(used_posts) |-> Stored(OldPost, i, 0)]
    /\ RunInit /\ ToolIdleInit /\ generator = "any" /\ SchedIdleInit /\ TopicIdleInit

SpecRecent == RecentInit /\ [][RecentStep]_vars

\* Before a call of retry_with_backoff.
RetryInit ==
    /\ LockInit /\ PostsInit /\ QueueInit /\ QueueBacklogInit /\ HistoryIdleInit
    /\ RunInit /\ generator = "any" /\ SchedIdleInit /\ TopicIdleInit
    /\ ToolIdleInit

SpecRetry == RetryInit /\ [][RetryStep]_vars

HashtagInit ==
    /\ LockInit /\ PostsInit /\ QueueInit /\ QueueBacklogInit /\ HistoryIdleInit
    /\ RunInit /\ generator = "any" /\ SchedIdleInit /\ TopicIdleInit
    /\ ToolIdleInit

SpecHashtags == HashtagInit /\ [][HashtagStep]_vars

\* Before a run: the state file empty, or holding a time scheduler.py wrote
\* (naive) or when_gate.py wrote (aware).
PublishInit ==
    /\ LockInit /\ PostsInit /\ QueueInit /\ QueueBacklogInit /\ HistoryIdleInit
    /\ RunInit /\ generator = "any" /\ TopicIdleInit
    /\ ToolIdleInit
    /\ state_json \in {NoNextTime}
                      \cup {NextTime(t, aware) : t \in PublishTimes, aware \in BOOLEAN}
    /\ wall_clock \in InitialClocks
    /\ cfg \in Configs
    /\ sched = NoSchedCall

SpecPublish == PublishInit /\ [][PublishStep]_vars

RetryQueueInit ==
    /\ LockInit /\ PostsInit /\ QueueInit /\ QueueBacklogInit /\ HistoryIdleInit
    /\ RunInit /\ generator = "any" /\ SchedIdleInit /\ TopicIdleInit
    /\ ToolIdleInit

SpecRetryQueue == RetryQueueInit /\ [][RetryQueueStep]_vars

\* process_retry_queue is run again and again, and time passes.
FairSpecRetryQueue ==
    /\ RetryQueueInit /\ [][RetryQueueStep]_vars
    /\ WF_vars(ProcessRuns)
    /\ WF_vars(TimePasses)

\* Two processes about to call the same function, on any state file and any
\* niche list with its cursor.
ConcurrentInit ==
    /\ LockInit /\ PostsInit /\ QueueInit /\ QueueBacklogInit /\ HistoryIdleInit
    /\ RunInit /\ generator = "any"
    /\ retry = RetryIdle /\ tagged = NoTagging /\ pub = PubIdle
    /\ sim = NoSimilarityCall /\ rq = RqIdle
    /\ state_json \in {NoNextTime}
                      \cup {NextTime(t, aware) : t \in PublishTimes, aware \in BOOLEAN}
    /\ wall_clock \in InitialClocks
    /\ cfg \in Configs
    /\ sched = NoSchedCall
    /\ niches \in NicheConfigs \ {<<>>}
    /\ niche_index \in -1..(Len(niches) - 1)
    /\ cursor0 = niche_index
    /\ topic_history = <<>> /\ today = 0 /\ tpc = "idle" /\ strategy = NoStrategy
    /\ picked = <<>> /\ runs = 0 /\ saves = 0
    /\ recorded = [x \in Topics |-> NeverRecorded]
    /\ \E op \in {"schedule", "niche"} :
          cc = [CcIdle EXCEPT !.op = op, !.state0 = state_json]

SpecConcurrent == ConcurrentInit /\ [][ConcurrentStep]_vars

SimilarityInit ==
    /\ LockInit /\ PostsInit /\ QueueInit /\ QueueBacklogInit /\ HistoryIdleInit
    /\ RunInit /\ generator = "any" /\ SchedIdleInit /\ TopicIdleInit
    /\ ToolIdleInit

SpecSimilarity == SimilarityInit /\ [][SimilarityStep]_vars

====
